---- MODULE Spec2Model ----
(***************************************************************************)
(* Cashu redeem API: the redemption service (ledger, duplicate guard,      *)
(* orchestration of one redemption), the cashu service (token parsing,     *)
(* fee, mint cache, melt), the lightning service (address selection,       *)
(* LNURLp resolution) and the POST /api/redeem handler.                    *)
(*                                                                         *)
(* Every `await` of the source is a suspension point: a request is a       *)
(* process whose position (pc) names the await it is suspended at, and an  *)
(* action is the synchronous run of code between two awaits.               *)
(***************************************************************************)
EXTENDS Integers, Sequences, FiniteSets, TLC

VARIABLES
  redemptions,   \* RedemptionService.redemptions : redeemId -> entry
  tokenHashes,   \* RedemptionService.tokenHashes : token hash -> redeemId
  mints,         \* CashuService.mints   : cached mint URLs
  wallets,       \* CashuService.wallets : cached wallet URLs
  uuid,          \* number of ids handed out by uuidv4()
  now,           \* wall clock (Date.now()), in ticks
  config,        \* process.env read by the LightningService constructor
  req,           \* the in-flight POST /api/redeem requests
  feeArg,        \* argument of a direct calculateFee call
  feeRes,        \* its result
  probe,         \* a direct call of another pure method: name, arguments, result
  statusRes      \* the last answer of GET /api/status/:redeemId

vars == <<redemptions, tokenHashes, mints, wallets, uuid, now, config, req, feeArg, feeRes, probe, statusRes>>

-----------------------------------------------------------------------------
(* Bounds *)

NumRequests == 2       \* request slots that can be in flight together
MaxAttempts == 2       \* redemption ids handed out in one behaviour
MaxClock == 2          \* last clock tick
MaxFeeAmount == 160    \* largest amount given to a direct calculateFee call

Requests == 1 .. NumRequests

-----------------------------------------------------------------------------
(* JavaScript values *)

Undefined == "undefined"     \* a string field that is undefined / absent
NoNum == -1                  \* a numeric field that is undefined / absent
JsTrue == "true"
JsFalse == "false"

\* truthiness of a value held in a string-typed field
Truthy(v) == v \notin {Undefined, JsFalse, ""}

\* a || b on string-typed fields
JsOr(a, b) == IF Truthy(a) THEN a ELSE b

\* a || b on numeric fields (0 and undefined are falsy)
NumOr(a, b) == IF a # NoNum /\ a # 0 THEN a ELSE b

Max(a, b) == IF a >= b THEN a ELSE b

RECURSIVE SumSeq(_)
SumSeq(s) == IF s = <<>> THEN 0 ELSE Head(s) + SumSeq(Tail(s))

-----------------------------------------------------------------------------
(* Math.ceil(amount * 0.02) in IEEE-754 double arithmetic.                 *)
(* The literal 0.02 is the double 0x3F947AE147AE147B, that is the 53-bit   *)
(* significand 0x147AE147AE147B scaled by 2^-58.  The exact product        *)
(* amount * significand is computed in base-2^14 digits (amount < 2^16),   *)
(* rounded to 53 significant bits, half to even, and then rounded up to    *)
(* an integer.                                                             *)

Digit == 16384

\* 0x147AE147AE147B in base 2^14, least significant digit first
Significand002 == <<5243, 7864, 11796, 1310>>

RECURSIVE Pow2(_)
Pow2(k) == IF k = 0 THEN 1 ELSE 2 * Pow2(k - 1)

RECURSIVE BitLength(_)
BitLength(n) == IF n = 0 THEN 0 ELSE 1 + BitLength(n \div 2)

\* amount * significand = low + mid * 2^28 + high * 2^42
Product002(amount) ==
  LET v0 == amount * Significand002[1]
      v1 == amount * Significand002[2] + v0 \div Digit
      v2 == amount * Significand002[3] + v1 \div Digit
      v3 == amount * Significand002[4] + v2 \div Digit
  IN [low |-> (v0 % Digit) + Digit * (v1 % Digit), mid |-> v2 % Digit, high |-> v3]

\* Math.ceil(amount * 0.02): the binary point of the product is at bit 58
CeilMul002(amount) ==
  LET p == Product002(amount)
      s == BitLength(p.high) + 42 - 53        \* bits dropped by the rounding
      int == p.high \div 65536                \* bits 58 and up
      keptFracZero == /\ p.high % 65536 = 0   \* bits s .. 57 are all zero
                      /\ p.mid = 0
                      /\ p.low \div Pow2(s) = 0
      roundUp == /\ s > 0
                 /\ (p.low \div Pow2(s - 1)) % 2 = 1
                 /\ \/ p.low % Pow2(s - 1) # 0
                    \/ (p.low \div Pow2(s)) % 2 = 1
  IN IF keptFracZero /\ ~roundUp THEN int ELSE int + 1

\* Math.floor(amount * 0.02)
FloorMul002(amount) == Product002(amount).high \div 65536

\* a slip: Math.floor in place of Math.ceil
calculateFee_floor(amount) == Max(1, FloorMul002(amount))

\* CashuService.calculateFee
calculateFee(amount) == Max(1, CeilMul002(amount))

-----------------------------------------------------------------------------
(* Tokens.  An encoded token is an opaque string; getDecodedToken of       *)
(* cashu-ts is a table from the trimmed string to the proofs it carries.   *)

NoToken == Undefined        \* req.body.token missing

MintUrl == "https://mint.example"

\* String.prototype.trim
Trim(token) == IF token = " cashuA21000 " THEN "cashuA21000" ELSE token

\* CashuService.isValidTokenFormat : /^cashu[abAB][a-zA-Z0-9-_]+$/
isValidTokenFormat(token) ==
  token \in {"cashuA21000", "cashuA1", "cashuB100", "cashuAempty", "cashuAzero"}

\* getDecodedToken (cashu-ts), v3 shape: { mint, proofs }
getDecodedToken(token) ==
  CASE token = "cashuA21000" -> [mint |-> MintUrl, proofs |-> <<16384, 4096, 512, 8>>]
    [] token = "cashuA1"     -> [mint |-> MintUrl, proofs |-> <<1>>]
    [] token = "cashuB100"   -> [mint |-> MintUrl, proofs |-> <<64, 32, 4>>]
    [] token = "cashuAzero"  -> [mint |-> MintUrl, proofs |-> <<0>>]
    [] OTHER                 -> [mint |-> MintUrl, proofs |-> <<>>]

\* CashuService.decodeTokenStructure
decodeTokenStructure(token) == getDecodedToken(token)

\* a slip: the check of the total left out
parseToken_anyTotal(rawToken) ==
  LET token == Trim(rawToken)
      decoded == decodeTokenStructure(token)
      totalAmount == SumSeq(decoded.proofs)
      failed(msg) == [ok |-> FALSE, error |-> <<"Token parsing failed: ", msg>>,
                      mint |-> Undefined, totalAmount |-> NoNum, numProofs |-> NoNum]
  IN IF rawToken = NoToken THEN failed("Invalid token format")
     ELSE IF ~isValidTokenFormat(token)
       THEN failed("Invalid token format. Must be a valid Cashu token")
     ELSE IF Len(decoded.proofs) = 0
       THEN failed("Invalid token structure - no proofs found")
     ELSE [ok |-> TRUE, error |-> <<>>, mint |-> decoded.mint,
           totalAmount |-> totalAmount, numProofs |-> Len(decoded.proofs)]

\* CashuService.parseToken : ok = FALSE when it throws
parseToken(rawToken) ==
  LET token == Trim(rawToken)
      decoded == decodeTokenStructure(token)
      totalAmount == SumSeq(decoded.proofs)
      failed(msg) == [ok |-> FALSE, error |-> <<"Token parsing failed: ", msg>>,
                      mint |-> Undefined, totalAmount |-> NoNum, numProofs |-> NoNum]
  IN IF rawToken = NoToken THEN failed("Invalid token format")
     ELSE IF ~isValidTokenFormat(token)
       THEN failed("Invalid token format. Must be a valid Cashu token")
     ELSE IF Len(decoded.proofs) = 0
       THEN failed("Invalid token structure - no proofs found")
     ELSE IF totalAmount <= 0 THEN failed("Token has no value")
     ELSE [ok |-> TRUE, error |-> <<>>, mint |-> decoded.mint,
           totalAmount |-> totalAmount, numProofs |-> Len(decoded.proofs)]

\* RedemptionService.generateTokenHash : sha256 of the raw string
generateTokenHash(token) == <<"sha256", token>>

-----------------------------------------------------------------------------
(* Lightning addresses *)

NoAddress == Undefined      \* req.body.lightningAddress missing

\* username and domain of the address strings of the model
AddressParts(address) ==
  CASE address = "user@ln.tips"      -> [wellFormed |-> TRUE, username |-> "user", domain |-> "ln.tips"]
    [] address = "admin@example.org" -> [wellFormed |-> TRUE, username |-> "admin", domain |-> "example.org"]
    [] address = "user@evil.com"     -> [wellFormed |-> TRUE, username |-> "user", domain |-> "evil.com"]
    [] OTHER                         -> [wellFormed |-> FALSE, username |-> Undefined, domain |-> Undefined]

\* String.prototype.toLowerCase on the domain strings of the model
toLowerCase(str) ==
  CASE str \in {"LN.TIPS", "Ln.Tips"} -> "ln.tips"
    [] str = "GETALBY.COM"           -> "getalby.com"
    [] OTHER                         -> str

\* LightningService.getDefaultLightningAddress
getDefaultLightningAddress == config.defaultLightningAddress

\* String.prototype.trim on the address strings of the model
TrimAddress(address) ==
  CASE address = "  "             -> ""
    [] address = " user@ln.tips " -> "user@ln.tips"
    [] OTHER                      -> address

\* providedAddress && providedAddress.trim()
Provided(providedAddress) ==
  Truthy(providedAddress) /\ Truthy(TrimAddress(providedAddress))

\* a slip: a blank address taken as provided
getLightningAddressToUse_untrimmed(providedAddress) ==
  IF Truthy(providedAddress) THEN [ok |-> TRUE, address |-> providedAddress, error |-> <<>>]
  ELSE IF ~Truthy(getDefaultLightningAddress)
    THEN [ok |-> FALSE, address |-> Undefined,
          error |-> <<"No Lightning address provided and no default Lightning address configured">>]
  ELSE [ok |-> TRUE, address |-> getDefaultLightningAddress, error |-> <<>>]

\* LightningService.getLightningAddressToUse : ok = FALSE when it throws
getLightningAddressToUse(providedAddress) ==
  IF Provided(providedAddress)
    THEN [ok |-> TRUE, address |-> TrimAddress(providedAddress), error |-> <<>>]
  ELSE IF ~Truthy(getDefaultLightningAddress)
    THEN [ok |-> FALSE, address |-> Undefined,
          error |-> <<"No Lightning address provided and no default Lightning address configured">>]
  ELSE [ok |-> TRUE, address |-> getDefaultLightningAddress, error |-> <<>>]

\* LightningService.validateLightningAddress : /^[^\s@]+@[^\s@]+\.[^\s@]+$/
validateLightningAddress(lightningAddress) ==
  Truthy(lightningAddress) /\ AddressParts(lightningAddress).wellFormed

\* LightningService.isDomainAllowed
isDomainAllowed(domain) ==
  \/ config.allowedDomains = {}
  \/ "*" \in config.allowedDomains
  \/ toLowerCase(domain) \in config.allowedDomains

\* LightningService.parseLightningAddress : ok = FALSE when it throws
parseLightningAddress(lightningAddress) ==
  LET parts == AddressParts(lightningAddress)
  IN IF ~validateLightningAddress(lightningAddress)
       THEN [ok |-> FALSE, error |-> <<"Invalid Lightning address format">>, domain |-> Undefined]
     ELSE IF ~isDomainAllowed(parts.domain)
       THEN [ok |-> FALSE, error |-> <<"Domain is not allowed for redemption">>, domain |-> parts.domain]
     ELSE [ok |-> TRUE, error |-> <<>>, domain |-> parts.domain]

\* LightningService.getLNURLpEndpoint, for an address that parses:
\* https://${domain}/.well-known/lnurlp/${username}
getLNURLpEndpoint(lightningAddress) ==
  [domain |-> AddressParts(lightningAddress).domain,
   username |-> AddressParts(lightningAddress).username]

\* LightningService.satsToMillisats
satsToMillisats(sats) == sats * 1000

\* LightningService.millisatsToSats
millisatsToSats(msats) == msats \div 1000

\* a slip: the bounds taken as exclusive
validateAmount_exclusive(amount, lnurlpResponse) ==
  LET amountMsats == satsToMillisats(amount)
  IN amountMsats > lnurlpResponse.minSendable /\ amountMsats < lnurlpResponse.maxSendable

\* LightningService.validateAmount
validateAmount(amount, lnurlpResponse) ==
  LET amountMsats == satsToMillisats(amount)
  IN amountMsats >= lnurlpResponse.minSendable /\ amountMsats <= lnurlpResponse.maxSendable

-----------------------------------------------------------------------------
(* Error messages.  A message is the sequence of its text fragments (the   *)
(* prefixes added by each catch-and-rethrow, outermost first) and the      *)
(* numbers interpolated into it.                                           *)

NoError == [text |-> <<>>, nums |-> <<>>]

Error(text, nums) == [text |-> text, nums |-> nums]

\* new Error(prefix + error.message)
Wrap(prefix, error) == [text |-> <<prefix>> \o error.text, nums |-> error.nums]

\* the needles of the String.prototype.includes tests of the source that
\* occur in a text fragment
Needles(fragment) ==
  CASE fragment = "Token amount is insufficient to cover the minimum fee"
         -> {"insufficient"}
    [] fragment = "This token has already been spent and cannot be redeemed again"
         -> {"cannot be redeemed"}
    [] fragment = "Token proofs are not spendable - they have already been used or are invalid"
         -> {"not spendable", "already been used", "Token proofs are not spendable"}
    [] fragment = "Token proofs are not spendable - they may have already been used or are invalid"
         -> {"not spendable", "already been used", "Token proofs are not spendable"}
    [] fragment = "TOKEN_SPENT: Token proofs are not spendable - they have already been used"
         -> {"TOKEN_SPENT:", "not spendable", "already been used",
             "Token proofs are not spendable"}
    [] fragment = "Token validation failed at mint: " -> {"Token validation failed at mint:"}
    [] fragment = "This mint does not support spendability checking. Token may still be valid."
         -> {"may still be valid", "does not support spendability checking"}
    [] fragment = "This mint does not support spendability checking (method not allowed)"
         -> {"does not support spendability checking"}
    [] fragment = "This mint does not support spendability checking (not implemented)"
         -> {"not implemented", "does not support spendability checking"}
    [] fragment = "Insufficient funds. Required / Available"
         -> {"Insufficient funds"}
    [] fragment = "This mint does not support spendability checking (endpoint not found)"
         -> {"endpoint not found", "does not support spendability checking"}
    [] fragment = "Mint returned HTTP 422" -> {"422"}
    [] fragment = "Mint returned HTTP 404" -> {"404"}
    [] fragment = "Token already spent" -> {"already spent"}
    [] OTHER -> {}

\* error.message.includes(needle)
includes(error, needle) ==
  \E i \in 1 .. Len(error.text) : needle \in Needles(error.text[i])

-----------------------------------------------------------------------------
(* The redemption ledger *)

\* the answer of wallet.meltTokens; absent fields hold Undefined / NoNum
NoMeltResponse ==
  [paid |-> Undefined, payment_preimage |-> Undefined, preimage |-> Undefined,
   state |-> Undefined, fee_paid |-> NoNum, fee |-> NoNum]

\* the object stored by performRedemption, every later field still absent
InitialStatus(token, tokenHash, lightningAddress, usingDefaultAddress) ==
  [status |-> "processing", token |-> token, tokenHash |-> tokenHash,
   lightningAddress |-> lightningAddress, usingDefaultAddress |-> usingDefaultAddress,
   amount |-> NoNum, paid |-> JsFalse, error |-> NoError,
   mint |-> Undefined, expectedFee |-> NoNum, netAmountAfterFee |-> NoNum,
   invoiceAmount |-> NoNum, domain |-> Undefined,
   preimage |-> Undefined, fee |-> NoNum, actualFee |-> NoNum, netAmount |-> NoNum,
   paidAt |-> NoNum, rawMeltResponse |-> NoMeltResponse,
   createdAt |-> NoNum, updatedAt |-> NoNum]

\* a slip: the initial status not stored
storeRedemption_skipped(ledger, redeemId, status) == ledger

\* RedemptionService.storeRedemption
storeRedemption(ledger, redeemId, status) ==
  [id \in DOMAIN ledger \cup {redeemId} |->
     IF id = redeemId
       THEN [status EXCEPT !.createdAt = now, !.updatedAt = now]
       ELSE ledger[id]]

\* { ...existing, ...updates }
Merge(existing, updates) ==
  [f \in DOMAIN existing |-> IF f \in DOMAIN updates THEN updates[f] ELSE existing[f]]

\* a slip: the entry replaced by the updates, not merged with them
updateRedemption_replacing(ledger, redeemId, updates) ==
  IF redeemId \in DOMAIN ledger
    THEN [ledger EXCEPT ![redeemId] =
            Merge(Merge(InitialStatus(Undefined, Undefined, Undefined, FALSE), updates),
                  [updatedAt |-> now])]
    ELSE ledger

\* RedemptionService.updateRedemption
updateRedemption(ledger, redeemId, updates) ==
  IF redeemId \in DOMAIN ledger
    THEN [ledger EXCEPT ![redeemId] = Merge(Merge(@, updates), [updatedAt |-> now])]
    ELSE ledger

\* RedemptionService.getRedemption : Undefined stands for null
getRedemption(redeemId) ==
  IF redeemId \in DOMAIN redemptions THEN redeemId ELSE NoNum

\* RedemptionService.getRedemptionByTokenHash : the id of the entry found, or NoNum
getRedemptionByTokenHash(tokenHash) ==
  IF tokenHash \in DOMAIN tokenHashes THEN getRedemption(tokenHashes[tokenHash]) ELSE NoNum

\* RedemptionService.checkExistingRedemption
checkExistingRedemption(token) == getRedemptionByTokenHash(generateTokenHash(token))

\* RedemptionService.cleanupOldRedemptions : the entries it deletes
Expired(maxAgeMs) == {id \in DOMAIN redemptions : redemptions[id].createdAt < now - maxAgeMs}

-----------------------------------------------------------------------------
(* Requests *)

NoInvoice == [amountMsats |-> NoNum]
\* resolveInvoice's local lnurlpResponse (its bounds), before the fetch
NoLnurlp == [minSendable |-> NoNum, maxSendable |-> NoNum]
\* resolveInvoice's local lnurlpUrl, before getLNURLpEndpoint has returned
NoUrl == [domain |-> Undefined, username |-> Undefined]
\* performRedemption's locals spendabilityCheck.spendable and spendError of
\* the spendability try block, before the check has answered
NoCheck == [kind |-> "none", spendable |-> << >>, error |-> NoError]
NoQuote == [amount |-> NoNum, fee_reserve |-> NoNum]
\* what getMint / getWallet returned to the request: nothing yet
NoHandle == [kind |-> "none", url |-> Undefined]

\* this.mints.get(mintUrl) / this.wallets.get(mintUrl): the cached instance,
\* named by the endpoint it was constructed for, or undefined
CacheGet(cache, mintUrl) == IF mintUrl \in cache THEN mintUrl ELSE Undefined

\* what performRedemption returns; absent fields hold Undefined / NoNum
NoResult ==
  [returned |-> FALSE, success |-> FALSE, redeemId |-> NoNum, paid |-> Undefined,
   amount |-> NoNum, invoiceAmount |-> NoNum, to |-> Undefined,
   usingDefaultAddress |-> FALSE, fee |-> NoNum, actualFee |-> NoNum,
   netAmount |-> NoNum, preimage |-> Undefined, mint |-> Undefined, error |-> NoError]

\* what the handler answers; absent fields hold Undefined / NoNum
NoResponse ==
  [status |-> NoNum, success |-> FALSE, error |-> NoError, errorType |-> Undefined,
   paid |-> Undefined, amount |-> NoNum, invoiceAmount |-> NoNum, to |-> Undefined,
   fee |-> NoNum, actualFee |-> NoNum, netAmount |-> NoNum, mint_url |-> Undefined,
   usingDefaultAddress |-> FALSE, preimage |-> Undefined, spent |-> Undefined]

\* checkTokenSpendable's local checkResult, or the error mint.check threw,
\* before the mint has answered
NoCheckResult ==
  [kind |-> "none", spendable |-> << >>, status |-> NoNum, detail |-> Undefined,
   message |-> NoError]

IdleRequest ==
  [pc |-> "idle", token |-> NoToken, lightningAddress |-> NoAddress,
   errors |-> <<>>, redeemId |-> NoNum, calls |-> <<>>,
   bolt11 |-> NoInvoice, meltQuote |-> NoQuote, lnurlp |-> NoLnurlp,
   lnurlpUrl |-> NoUrl, handle |-> NoHandle,
   spendCheck |-> NoCheck, checkResult |-> NoCheckResult,
   result |-> NoResult, response |-> NoResponse]

\* a request sent to an external service
Call(op, arg) == [op |-> op, arg |-> arg]

\* the request positions at which performRedemption is running
InPerform == {"parsing_token", "spend_parse", "spend_getinfo", "spend_check",
              "lnurlp_fetch", "invoice_fetch", "melt_parse", "melt_getinfo",
              "melt_quote", "melting"}

\* POST /api/redeem : the answer to a result of performRedemption
RedeemResponse(result) ==
  IF result.success
    THEN [NoResponse EXCEPT
            !.status = 200, !.success = TRUE, !.paid = result.paid,
            !.amount = result.amount, !.invoiceAmount = result.invoiceAmount,
            !.to = result.to, !.fee = result.fee, !.actualFee = result.actualFee,
            !.netAmount = result.netAmount, !.mint_url = result.mint,
            !.usingDefaultAddress = result.usingDefaultAddress,
            !.preimage = IF Truthy(result.preimage) THEN result.preimage ELSE Undefined]
    ELSE LET statusCode ==
               IF \/ includes(result.error, "cannot be redeemed")
                  \/ includes(result.error, "already been used")
                  \/ includes(result.error, "not spendable")
                  \/ includes(result.error, "already spent")
                  \/ includes(result.error, "invalid proofs")
                 THEN 409
               ELSE IF includes(result.error, "insufficient") THEN 422
               ELSE 400
         IN [NoResponse EXCEPT
               !.status = statusCode, !.success = FALSE, !.error = result.error,
               !.errorType = IF statusCode = 409 THEN "token_already_spent"
                             ELSE IF statusCode = 422 THEN "insufficient_funds"
                             ELSE "validation_error"]

\* POST /api/redeem : the answer to a failed validation
ValidationResponse(errors) ==
  [NoResponse EXCEPT !.status = 400, !.success = FALSE, !.error = Error(errors, <<>>)]

\* performRedemption, catch block, entered with the ledger as the try
\* block left it: the entry becomes failed, the failure is returned and answered
\* a slip: the catch block writing the status alone
FailedWith_statusOnly(r, ledger, error, locals) ==
  LET result == [NoResult EXCEPT !.returned = TRUE, !.success = FALSE,
                                 !.redeemId = req[r].redeemId, !.error = error]
  IN /\ redemptions' = updateRedemption(ledger, req[r].redeemId, [status |-> "failed"])
     /\ req' = [req EXCEPT ![r] = [locals EXCEPT !.pc = "done", !.result = result,
                                                 !.response = RedeemResponse(result)]]

\* a slip: the failure returned with the ledger left as it was
FailedWith_unrecorded(r, ledger, error, locals) ==
  LET result == [NoResult EXCEPT !.returned = TRUE, !.success = FALSE,
                                 !.redeemId = req[r].redeemId, !.error = error]
  IN /\ redemptions' = ledger
     /\ req' = [req EXCEPT ![r] = [locals EXCEPT !.pc = "done", !.result = result,
                                                 !.response = RedeemResponse(result)]]

\* (locals is the request with the local variables of the try block)
FailedWith(r, ledger, error, locals) ==
  LET result == [NoResult EXCEPT !.returned = TRUE, !.success = FALSE,
                                 !.redeemId = req[r].redeemId, !.error = error]
  IN /\ redemptions' = updateRedemption(ledger, req[r].redeemId,
                          [status |-> "failed", paid |-> JsFalse, error |-> error])
     /\ req' = [req EXCEPT ![r] = [locals EXCEPT !.pc = "done", !.result = result,
                                                 !.response = RedeemResponse(result)]]

FailedFrom(r, ledger, error) == FailedWith(r, ledger, error, req[r])

Failed(r, error) == FailedFrom(r, redemptions, error)

\* no pure method has been called directly
NoProbe == [op |-> "none", arg |-> << >>, res |-> "none"]

\* RedemptionService.getRedemptionStatus : the response object, absent
\* details holding Undefined / NoNum / NoError; found = FALSE stands for null
NullStatus ==
  [found |-> FALSE, success |-> FALSE, status |-> Undefined, amount |-> NoNum,
   to |-> Undefined, paid |-> Undefined, createdAt |-> NoNum, updatedAt |-> NoNum,
   paidAt |-> NoNum, fee |-> NoNum, error |-> NoError, mint |-> Undefined,
   domain |-> Undefined]

getRedemptionStatus(redeemId) ==
  IF getRedemption(redeemId) = NoNum THEN NullStatus
  ELSE LET redemption == redemptions[redeemId]
       IN [found |-> TRUE, success |-> TRUE, status |-> redemption.status,
           amount |-> redemption.amount, to |-> redemption.lightningAddress,
           paid |-> redemption.paid, createdAt |-> redemption.createdAt,
           updatedAt |-> redemption.updatedAt,
           paidAt |-> redemption.paidAt,
           fee |-> NumOr(redemption.fee, NoNum),
           error |-> redemption.error,
           mint |-> IF Truthy(redemption.mint) THEN redemption.mint ELSE Undefined,
           domain |-> IF Truthy(redemption.domain) THEN redemption.domain ELSE Undefined]

\* no status request has been answered
NoStatus == [redeemId |-> NoNum, code |-> NoNum, body |-> NullStatus]

-----------------------------------------------------------------------------
(* Configurations and initial state *)

Configs ==
  { [allowedDomains |-> {"*"}, defaultLightningAddress |-> "admin@example.org"] }

Init ==
  /\ redemptions = << >>
  /\ tokenHashes = << >>
  /\ mints = {}
  /\ wallets = {}
  /\ uuid = 0
  /\ now = 0
  /\ config \in Configs
  /\ req = [r \in Requests |-> IdleRequest]
  /\ feeArg = 0
  /\ feeRes = NoNum
  /\ probe = NoProbe
  /\ statusRes = NoStatus

-----------------------------------------------------------------------------
(* POST /api/redeem, validation *)

\* a slip: the validation recording the fingerprint of the token it checks
Redeem_reserving(r, token, lightningAddress) ==
  /\ req[r].pc = "idle"
  /\ LET e1 == IF ~Truthy(token)
                 THEN <<"Token is required and must be a string">> ELSE <<>>
         addressToUse == getLightningAddressToUse(lightningAddress)
         e2 == IF ~addressToUse.ok THEN e1 \o addressToUse.error
               ELSE IF ~validateLightningAddress(addressToUse.address)
                 THEN e1 \o <<"Invalid Lightning address format">>
               ELSE e1
         e3 == IF Truthy(token) /\ checkExistingRedemption(token) # NoNum
                 THEN e2 \o <<"Token has already been redeemed">> ELSE e2
         tokenHash == generateTokenHash(token)
     IN /\ req' = [req EXCEPT ![r] =
                     [IdleRequest EXCEPT
                        !.pc = IF Truthy(token) /\ e3 = <<>> THEN "validating" ELSE "validated",
                        !.token = token, !.lightningAddress = lightningAddress,
                        !.errors = e3]]
        /\ tokenHashes' = [h \in DOMAIN tokenHashes \cup {tokenHash} |->
                             IF h \in DOMAIN tokenHashes THEN tokenHashes[h] ELSE NoNum]
  /\ UNCHANGED <<redemptions, mints, wallets, uuid, now, config, feeArg, feeRes, probe, statusRes>>

\* the handler is entered and validateRedemptionRequest runs up to its
\* await of parseToken (or to its end when an error was already found)
Redeem(r, token, lightningAddress) ==
  /\ req[r].pc = "idle"
  /\ LET e1 == IF ~Truthy(token)
                 THEN <<"Token is required and must be a string">> ELSE <<>>
         addressToUse == getLightningAddressToUse(lightningAddress)
         e2 == IF ~addressToUse.ok THEN e1 \o addressToUse.error
               ELSE IF ~validateLightningAddress(addressToUse.address)
                 THEN e1 \o <<"Invalid Lightning address format">>
               ELSE e1
         e3 == IF Truthy(token) /\ checkExistingRedemption(token) # NoNum
                 THEN e2 \o <<"Token has already been redeemed">> ELSE e2
     IN req' = [req EXCEPT ![r] =
                  [IdleRequest EXCEPT
                     !.pc = IF Truthy(token) /\ e3 = <<>> THEN "validating" ELSE "validated",
                     !.token = token, !.lightningAddress = lightningAddress,
                     !.errors = e3]]
  /\ UNCHANGED <<redemptions, tokenHashes, mints, wallets, uuid, now, config, feeArg, feeRes, probe, statusRes>>

\* validateRedemptionRequest resumes with the result of parseToken and returns
ValidateParsed(r) ==
  /\ req[r].pc = "validating"
  /\ LET tokenData == parseToken(req[r].token)
         errors == IF ~tokenData.ok THEN <<"Invalid token: ">> \o tokenData.error
                   ELSE IF tokenData.totalAmount <= 0 THEN <<"Token has no value">>
                   ELSE <<>>
     IN req' = [req EXCEPT ![r] = [@ EXCEPT !.pc = "validated", !.errors = errors]]
  /\ UNCHANGED <<redemptions, tokenHashes, mints, wallets, uuid, now, config, feeArg, feeRes, probe, statusRes>>

\* the handler resumes with the validation: it answers 400, or calls
\* performRedemption, which runs up to its await of parseToken
HandlerValidated(r) ==
  /\ req[r].pc = "validated"
  /\ req[r].errors # <<>> \/ uuid < MaxAttempts
  /\ IF req[r].errors # <<>>
       THEN /\ req' = [req EXCEPT ![r] = [@ EXCEPT !.pc = "done",
                          !.response = ValidationResponse(req[r].errors)]]
            /\ UNCHANGED <<redemptions, tokenHashes, uuid>>
       ELSE LET redeemId == uuid + 1
                tokenHash == generateTokenHash(req[r].token)
                addressToUse == getLightningAddressToUse(req[r].lightningAddress)
                isUsingDefault == ~Provided(req[r].lightningAddress)
                stored == storeRedemption(redemptions, redeemId,
                            InitialStatus(req[r].token, tokenHash,
                                          addressToUse.address, isUsingDefault))
            IN /\ uuid' = redeemId
               /\ IF ~addressToUse.ok
                    THEN /\ redemptions' = redemptions
                         /\ tokenHashes' = tokenHashes
                         /\ req' = [req EXCEPT ![r] = [@ EXCEPT !.pc = "done",
                               !.redeemId = redeemId,
                               !.result = [NoResult EXCEPT !.returned = TRUE,
                                             !.redeemId = redeemId,
                                             !.error = Error(addressToUse.error, <<>>)],
                               !.response = RedeemResponse(
                                              [NoResult EXCEPT !.returned = TRUE,
                                                 !.redeemId = redeemId,
                                                 !.error = Error(addressToUse.error, <<>>)])]]
                    ELSE /\ redemptions' = updateRedemption(stored, redeemId,
                                              [status |-> "parsing_token"])
                         /\ tokenHashes' =
                              [h \in DOMAIN tokenHashes \cup {tokenHash} |->
                                 IF h = tokenHash THEN redeemId ELSE tokenHashes[h]]
                         /\ req' = [req EXCEPT ![r] = [@ EXCEPT !.pc = "parsing_token",
                                                                !.redeemId = redeemId]]
  /\ UNCHANGED <<mints, wallets, now, config, feeArg, feeRes, probe, statusRes>>

-----------------------------------------------------------------------------
(* performRedemption, step 1 and the spendability check *)

\* what the catch block of checkTokenSpendable throws for an error whose
\* extracted errorMessage is the given one
SpendabilityError(error) ==
  IF \/ includes(error, "not supported") \/ includes(error, "404")
     \/ includes(error, "405") \/ includes(error, "501")
     \/ includes(error, "Method not allowed") \/ includes(error, "endpoint not found")
     \/ includes(error, "not implemented") \/ includes(error, "Invalid response from mint")
    THEN Error(<<"This mint does not support spendability checking. Token may still be valid.">>, <<>>)
    ELSE Wrap("Failed to check token spendability: ", error)

\* a slip: every error of the check taken as a spent token
IsSpentError_any(spendError) == TRUE

\* performRedemption, catch (spendError): does it rethrow as already spent
IsSpentError(spendError) ==
  \/ includes(spendError, "not spendable") \/ includes(spendError, "already been used")
  \/ includes(spendError, "invalid proofs") \/ includes(spendError, "422")

AlreadySpent ==
  Error(<<"This token has already been spent and cannot be redeemed again">>, <<>>)

\* a slip: the status of step 1 written at step 2
StartResolveWith_parsing(r, ledger, locals) ==
  LET lightningAddressToUse == getLightningAddressToUse(req[r].lightningAddress).address
      parsed == parseLightningAddress(lightningAddressToUse)
      resolving == updateRedemption(ledger, req[r].redeemId, [status |-> "parsing_token"])
  IN IF ~parsed.ok
       THEN FailedWith(r, resolving,
              Wrap("Lightning address resolution failed: ", Error(parsed.error, <<>>)),
              locals)
       ELSE /\ redemptions' = resolving
            /\ req' = [req EXCEPT ![r] = [locals EXCEPT !.pc = "lnurlp_fetch",
                         !.lnurlpUrl = getLNURLpEndpoint(lightningAddressToUse),
                         !.calls = Append(@, Call("lnurlp.fetch", NoNum))]]

\* a slip: the default address tried when the provided one does not parse
StartResolveWith_fallback(r, ledger, locals) ==
  LET provided == getLightningAddressToUse(req[r].lightningAddress).address
      lightningAddressToUse ==
        IF parseLightningAddress(provided).ok THEN provided
        ELSE getDefaultLightningAddress
      parsed == parseLightningAddress(lightningAddressToUse)
      resolving == updateRedemption(ledger, req[r].redeemId, [status |-> "resolving_invoice"])
  IN IF ~parsed.ok
       THEN FailedWith(r, resolving,
              Wrap("Lightning address resolution failed: ", Error(parsed.error, <<>>)),
              locals)
       ELSE /\ redemptions' = resolving
            /\ req' = [req EXCEPT ![r] = [locals EXCEPT !.pc = "lnurlp_fetch",
                         !.lnurlpUrl = getLNURLpEndpoint(lightningAddressToUse),
                         !.calls = Append(@, Call("lnurlp.fetch", NoNum))]]

\* performRedemption from the end of the spendability check: status
\* resolving_invoice, and resolveInvoice up to its LNURLp fetch
\* (locals is the request with the local variables of the try block)
StartResolveWith(r, ledger, locals) ==
  LET lightningAddressToUse == getLightningAddressToUse(req[r].lightningAddress).address
      parsed == parseLightningAddress(lightningAddressToUse)
      resolving == updateRedemption(ledger, req[r].redeemId, [status |-> "resolving_invoice"])
  IN IF ~parsed.ok
       THEN FailedWith(r, resolving,
              Wrap("Lightning address resolution failed: ", Error(parsed.error, <<>>)),
              locals)
       ELSE /\ redemptions' = resolving
            /\ req' = [req EXCEPT ![r] = [locals EXCEPT !.pc = "lnurlp_fetch",
                         !.lnurlpUrl = getLNURLpEndpoint(lightningAddressToUse),
                         !.calls = Append(@, Call("lnurlp.fetch", NoNum))]]

\* performRedemption resumes with the parsed token: fee, net amount, status
\* checking_spendability, and checkTokenSpendable up to its await of parseToken
\* a slip: a net amount of zero let through
Insufficient_negative(netAmountAfterFee) == netAmountAfterFee < 0

\* performRedemption, "ensure we have enough after fee"
Insufficient(netAmountAfterFee) == netAmountAfterFee <= 0

PerformParsed(r) ==
  /\ req[r].pc = "parsing_token"
  /\ \E tokenData \in {parseToken(req[r].token)} :
     \E expectedFee \in {IF tokenData.ok THEN calculateFee(tokenData.totalAmount)
                                          ELSE NoNum} :
     LET netAmountAfterFee == tokenData.totalAmount - expectedFee
     IN IF ~tokenData.ok THEN Failed(r, Error(tokenData.error, <<>>))
        ELSE IF Insufficient(netAmountAfterFee)
          THEN Failed(r, Error(<<"Token amount is insufficient to cover the minimum fee">>,
                               <<tokenData.totalAmount, expectedFee>>))
        ELSE /\ redemptions' =
                  updateRedemption(
                    updateRedemption(redemptions, req[r].redeemId,
                      [amount |-> tokenData.totalAmount, mint |-> tokenData.mint,
                       expectedFee |-> expectedFee,
                       netAmountAfterFee |-> netAmountAfterFee]),
                    req[r].redeemId, [status |-> "checking_spendability"])
             /\ req' = [req EXCEPT ![r] = [@ EXCEPT !.pc = "spend_parse"]]
  /\ UNCHANGED <<tokenHashes, mints, wallets, uuid, now, config, feeArg, feeRes, probe, statusRes>>

\* checkTokenSpendable resumes with the parsed token and calls getMint: a
\* cached mint is used for mint.check, otherwise mint.getInfo is sent first
SpendParsed(r) ==
  /\ req[r].pc = "spend_parse"
  /\ LET parsed == parseToken(req[r].token)
     IN req' = [req EXCEPT ![r] =
                  IF parsed.mint \in mints
                    THEN [@ EXCEPT !.pc = "spend_check",
                                   !.handle = [kind |-> "mint",
                                               url |-> CacheGet(mints, parsed.mint)],
                                   !.calls = Append(@, Call("mint.check", NoNum))]
                    ELSE [@ EXCEPT !.pc = "spend_getinfo",
                                   !.calls = Append(@, Call("mint.getInfo", NoNum))]]
  /\ UNCHANGED <<redemptions, tokenHashes, mints, wallets, uuid, now, config, feeArg, feeRes, probe, statusRes>>

\* performRedemption, catch (spendError), entered with the locals of the
\* spendability try block
SpendabilityThrewWith(r, spendError, locals) ==
  IF IsSpentError(spendError) THEN FailedWith(r, redemptions, AlreadySpent, locals)
  ELSE StartResolveWith(r, redemptions, locals)

\* performRedemption with what checkTokenSpendable threw
SpendabilityThrew(r, spendError) ==
  SpendabilityThrewWith(r, spendError,
    [req[r] EXCEPT !.spendCheck = [kind |-> "error", spendable |-> << >>,
                                   error |-> spendError]])

\* a slip: the mint cached before its connectivity check has answered
SpendGetInfoDone_cachedFirst(r, info) ==
  /\ req[r].pc = "spend_getinfo"
  /\ LET parsed == parseToken(req[r].token)
     IN IF info.ok
          THEN /\ mints' = mints \cup {parsed.mint}
               /\ req' = [req EXCEPT ![r] = [@ EXCEPT !.pc = "spend_check",
                            !.handle = [kind |-> "mint",
                                        url |-> CacheGet(mints', parsed.mint)],
                            !.calls = Append(@, Call("mint.check", NoNum))]]
               /\ UNCHANGED redemptions
          ELSE /\ mints' = mints \cup {parsed.mint}
               /\ SpendabilityThrew(r,
                    SpendabilityError(Wrap("Failed to connect to mint: ", info.error)))
  /\ UNCHANGED <<tokenHashes, wallets, uuid, now, config, feeArg, feeRes, probe, statusRes>>

\* getMint resumes in checkTokenSpendable with the answer to mint.getInfo
SpendGetInfoDone(r, info) ==
  /\ req[r].pc = "spend_getinfo"
  /\ LET parsed == parseToken(req[r].token)
     IN IF info.ok
          THEN /\ mints' = mints \cup {parsed.mint}
               /\ req' = [req EXCEPT ![r] = [@ EXCEPT !.pc = "spend_check",
                            !.handle = [kind |-> "mint",
                                        url |-> CacheGet(mints', parsed.mint)],
                            !.calls = Append(@, Call("mint.check", NoNum))]]
               /\ UNCHANGED redemptions
          ELSE /\ mints' = mints
               /\ SpendabilityThrew(r,
                    SpendabilityError(Wrap("Failed to connect to mint: ", info.error)))
  /\ UNCHANGED <<tokenHashes, wallets, uuid, now, config, feeArg, feeRes, probe, statusRes>>

\* checkTokenSpendable resumes with the answer to mint.check
SpendCheckDone(r, check) ==
  /\ req[r].pc = "spend_check"
  /\ IF check.kind = "result"
       THEN LET notSpendable ==
                  Error(<<"Token proofs are not spendable - they have already been used or are invalid">>, <<>>)
                answered(error) ==
                  [req[r] EXCEPT !.spendCheck = [kind |-> "result",
                                                 spendable |-> check.spendable,
                                                 error |-> error]]
            IN IF Len(check.spendable) = 0
                 THEN SpendabilityThrewWith(r, notSpendable, answered(notSpendable))
                 ELSE StartResolveWith(r, redemptions, answered(NoError))
       ELSE SpendabilityThrew(r, SpendabilityError(check.error))
  /\ UNCHANGED <<tokenHashes, mints, wallets, uuid, now, config, feeArg, feeRes, probe, statusRes>>

-----------------------------------------------------------------------------
(* performRedemption, step 2: resolveInvoice *)

\* a slip: the fee not subtracted
NetAmountAfterFee_gross(r) == parseToken(req[r].token).totalAmount

\* performRedemption's local netAmountAfterFee
NetAmountAfterFee(r) ==
  LET tokenData == parseToken(req[r].token)
  IN tokenData.totalAmount - calculateFee(tokenData.totalAmount)

ResolutionFailed(error) == Wrap("Lightning address resolution failed: ", error)

\* resolveInvoice resumes with the answer to the LNURLp fetch, validates the
\* amount and sends the callback request (getInvoice)
LnurlpDone(r, lnurlp) ==
  /\ req[r].pc = "lnurlp_fetch"
  /\ LET amount == NetAmountAfterFee(r)
         bounds == [minSendable |-> lnurlp.minSendable, maxSendable |-> lnurlp.maxSendable]
         left == [req[r] EXCEPT !.spendCheck = NoCheck]
         fetchFailed(msg) == ResolutionFailed(Wrap("LNURLp fetch failed: ", Error(<<msg>>, <<>>)))
         FetchFailed(msg) == FailedWith(r, redemptions, fetchFailed(msg), left)
     IN IF lnurlp.kind = "network" THEN FetchFailed("timeout of 10000ms exceeded")
        ELSE IF lnurlp.kind = "status_error"
          THEN FetchFailed("LNURLp endpoint returned error")
        ELSE IF \/ ~Truthy(lnurlp.callback)
                \/ lnurlp.minSendable \in {NoNum, 0}
                \/ lnurlp.maxSendable \in {NoNum, 0}
          THEN FetchFailed("Invalid LNURLp response - missing required fields")
        ELSE IF ~validateAmount(amount, lnurlp)
          THEN FailedWith(r, redemptions,
                 ResolutionFailed(
                   Error(<<"Amount is outside allowed range">>,
                         <<amount, millisatsToSats(lnurlp.minSendable),
                           millisatsToSats(lnurlp.maxSendable)>>)),
                 [left EXCEPT !.lnurlp = bounds])
        ELSE /\ req' = [req EXCEPT ![r] = [left EXCEPT !.pc = "invoice_fetch",
                          !.lnurlp = bounds,
                          !.calls = Append(@, Call("lnurlp.callback", satsToMillisats(amount)))]]
             /\ UNCHANGED redemptions
  /\ UNCHANGED <<tokenHashes, mints, wallets, uuid, now, config, feeArg, feeRes, probe, statusRes>>

\* getInvoice resumes with the answer of the callback; resolveInvoice
\* returns; performRedemption records the invoice, sets status
\* melting_token and calls meltToken, which runs up to its await of parseToken
InvoiceDone(r, answer) ==
  /\ req[r].pc = "invoice_fetch"
  /\ LET netAmountAfterFee == NetAmountAfterFee(r)
         lightningAddressToUse == getLightningAddressToUse(req[r].lightningAddress).address
         invoiceFailed(msg) ==
           ResolutionFailed(Wrap("Invoice generation failed: ", Error(<<msg>>, <<>>)))
     IN IF answer.kind = "network" THEN Failed(r, invoiceFailed("timeout of 10000ms exceeded"))
        ELSE IF answer.kind = "status_error"
          THEN Failed(r, invoiceFailed("Invoice generation failed"))
        ELSE IF answer.pr = NoInvoice
          THEN Failed(r, invoiceFailed("No invoice returned from callback"))
        ELSE /\ redemptions' =
                  updateRedemption(
                    updateRedemption(redemptions, req[r].redeemId,
                      [domain |-> parseLightningAddress(lightningAddressToUse).domain,
                       invoiceAmount |-> netAmountAfterFee]),
                    req[r].redeemId, [status |-> "melting_token"])
             /\ req' = [req EXCEPT ![r] = [@ EXCEPT !.pc = "melt_parse",
                                                    !.lnurlp = NoLnurlp,
                                                    !.bolt11 = answer.pr]]
  /\ UNCHANGED <<tokenHashes, mints, wallets, uuid, now, config, feeArg, feeRes, probe, statusRes>>

-----------------------------------------------------------------------------
(* performRedemption, step 3: meltToken *)

\* meltToken, catch block: what it throws for a caught error
MeltError(error) ==
  IF \/ includes(error, "Insufficient funds") \/ includes(error, "Payment failed")
     \/ includes(error, "Quote not found")
    THEN error
    ELSE Wrap("Melt operation failed: ", error)

\* a slip: the proofs submitted before a quote is asked
MeltParsed_submitFirst(r) ==
  /\ req[r].pc = "melt_parse"
  /\ LET parsed == parseToken(req[r].token)
     IN IF parsed.mint \in wallets \/ parsed.mint \in mints
          THEN /\ wallets' = wallets \cup {parsed.mint}
               /\ req' = [req EXCEPT ![r] = [@ EXCEPT !.pc = "melting",
                            !.handle = [kind |-> "wallet",
                                        url |-> CacheGet(wallets', parsed.mint)],
                            !.calls = Append(@, Call("wallet.meltTokens",
                                                     req[r].bolt11.amountMsats))]]
          ELSE /\ wallets' = wallets
               /\ req' = [req EXCEPT ![r] = [@ EXCEPT !.pc = "melt_getinfo",
                            !.calls = Append(@, Call("mint.getInfo", NoNum))]]
  /\ UNCHANGED <<redemptions, tokenHashes, mints, uuid, now, config, feeArg, feeRes, probe, statusRes>>

\* meltToken resumes with the parsed token and calls getWallet: with a cached
\* wallet or mint the melt quote is requested, otherwise mint.getInfo is sent
MeltParsed(r) ==
  /\ req[r].pc = "melt_parse"
  /\ LET parsed == parseToken(req[r].token)
     IN IF parsed.mint \in wallets \/ parsed.mint \in mints
          THEN /\ wallets' = wallets \cup {parsed.mint}
               /\ req' = [req EXCEPT ![r] = [@ EXCEPT !.pc = "melt_quote",
                            !.handle = [kind |-> "wallet",
                                        url |-> CacheGet(wallets', parsed.mint)],
                            !.calls = Append(@, Call("wallet.createMeltQuote",
                                                     req[r].bolt11.amountMsats))]]
          ELSE /\ wallets' = wallets
               /\ req' = [req EXCEPT ![r] = [@ EXCEPT !.pc = "melt_getinfo",
                            !.calls = Append(@, Call("mint.getInfo", NoNum))]]
  /\ UNCHANGED <<redemptions, tokenHashes, mints, uuid, now, config, feeArg, feeRes, probe, statusRes>>

\* getMint resumes in getWallet with the answer to mint.getInfo
MeltGetInfoDone(r, info) ==
  /\ req[r].pc = "melt_getinfo"
  /\ LET parsed == parseToken(req[r].token)
     IN IF info.ok
          THEN /\ mints' = mints \cup {parsed.mint}
               /\ wallets' = wallets \cup {parsed.mint}
               /\ req' = [req EXCEPT ![r] = [@ EXCEPT !.pc = "melt_quote",
                            !.handle = [kind |-> "wallet",
                                        url |-> CacheGet(wallets', parsed.mint)],
                            !.calls = Append(@, Call("wallet.createMeltQuote",
                                                     req[r].bolt11.amountMsats))]]
               /\ UNCHANGED redemptions
          ELSE /\ UNCHANGED <<mints, wallets>>
               /\ Failed(r, MeltError(Wrap("Failed to create wallet for mint: ",
                                        Wrap("Failed to connect to mint: ", info.error))))
  /\ UNCHANGED <<tokenHashes, uuid, now, config, feeArg, feeRes, probe, statusRes>>

\* a slip: the fee reserve left out
TotalRequired_amount(meltQuote) == meltQuote.amount

\* meltToken, "check if we have sufficient funds including fees"
TotalRequired(meltQuote) == meltQuote.amount + meltQuote.fee_reserve

\* meltToken resumes with the melt quote, checks the funds and submits the
\* proofs (wallet.meltTokens)
MeltQuoteDone(r, answer) ==
  /\ req[r].pc = "melt_quote"
  /\ LET parsed == parseToken(req[r].token)
         meltQuote == answer.quote
         totalRequired == TotalRequired(meltQuote)
     IN IF ~answer.ok THEN Failed(r, MeltError(answer.error))
        ELSE IF totalRequired > parsed.totalAmount
          THEN FailedWith(r, redemptions,
                 MeltError(Error(<<"Insufficient funds. Required / Available">>,
                   <<totalRequired, meltQuote.fee_reserve, parsed.totalAmount>>)),
                 [req[r] EXCEPT !.meltQuote = meltQuote])
        ELSE /\ req' = [req EXCEPT ![r] = [@ EXCEPT !.pc = "melting",
                          !.meltQuote = meltQuote,
                          !.calls = Append(@, Call("wallet.meltTokens", meltQuote.amount))]]
             /\ UNCHANGED redemptions
  /\ UNCHANGED <<tokenHashes, mints, wallets, uuid, now, config, feeArg, feeRes, probe, statusRes>>

\* a slip: the state of the response not consulted
MeltPaymentSuccessful_flagOnly(meltResponse) ==
  IF meltResponse.paid = JsTrue THEN JsTrue
  ELSE IF Truthy(meltResponse.payment_preimage) THEN meltResponse.payment_preimage
  ELSE meltResponse.preimage

\* meltToken, "verify payment was successful": true, a preimage, or falsy
MeltPaymentSuccessful(meltResponse) ==
  IF meltResponse.paid = JsTrue THEN JsTrue
  ELSE IF Truthy(meltResponse.payment_preimage) THEN meltResponse.payment_preimage
  ELSE IF Truthy(meltResponse.preimage) THEN meltResponse.preimage
  ELSE IF ~Truthy(meltResponse.state) THEN meltResponse.state
  ELSE IF meltResponse.state = "PAID" THEN JsTrue ELSE JsFalse

\* a slip: the net amount taken from the invoice amount
MeltResult_netOfInvoice(totalAmount, meltQuote, meltResponse) ==
  LET actualFeeCharged == NumOr(meltResponse.fee_paid,
                                NumOr(meltResponse.fee, meltQuote.fee_reserve))
  IN [paid |-> MeltPaymentSuccessful(meltResponse),
      preimage |-> JsOr(meltResponse.payment_preimage, meltResponse.preimage),
      amount |-> meltQuote.amount,
      fee |-> actualFeeCharged,
      actualFee |-> calculateFee(totalAmount),
      netAmount |-> meltQuote.amount - actualFeeCharged]

\* meltToken, the object it returns for a melt response
MeltResult(totalAmount, meltQuote, meltResponse) ==
  LET actualFeeCharged == NumOr(meltResponse.fee_paid,
                                NumOr(meltResponse.fee, meltQuote.fee_reserve))
  IN [paid |-> MeltPaymentSuccessful(meltResponse),
      preimage |-> JsOr(meltResponse.payment_preimage, meltResponse.preimage),
      amount |-> meltQuote.amount,
      fee |-> actualFeeCharged,
      actualFee |-> calculateFee(totalAmount),
      netAmount |-> totalAmount - actualFeeCharged]

\* performRedemption, "determine if payment was successful"
PaymentSuccessful(meltResult) ==
  JsOr(meltResult.paid, IF Truthy(meltResult.preimage) THEN JsTrue ELSE JsFalse)

\* a slip: a melt that raised an error submitted a second time
MeltDone_retry(r, answer) ==
  /\ req[r].pc = "melting"
  /\ LET tokenData == parseToken(req[r].token)
         meltResult == MeltResult(tokenData.totalAmount, req[r].meltQuote, answer.response)
         paymentSuccessful == PaymentSuccessful(meltResult)
         result == [NoResult EXCEPT
                      !.returned = TRUE, !.success = TRUE, !.redeemId = req[r].redeemId,
                      !.paid = paymentSuccessful, !.amount = tokenData.totalAmount,
                      !.invoiceAmount = NetAmountAfterFee(r),
                      !.to = getLightningAddressToUse(req[r].lightningAddress).address,
                      !.usingDefaultAddress = ~Provided(req[r].lightningAddress),
                      !.fee = meltResult.fee, !.actualFee = meltResult.actualFee,
                      !.netAmount = meltResult.netAmount,
                      !.preimage = meltResult.preimage, !.mint = tokenData.mint]
     IN IF ~answer.ok /\ Len(req[r].calls) < 7
          THEN /\ req' = [req EXCEPT ![r] = [@ EXCEPT
                            !.calls = Append(@, Call("wallet.meltTokens", req[r].meltQuote.amount))]]
               /\ UNCHANGED redemptions
        ELSE IF ~answer.ok THEN Failed(r, MeltError(answer.error))
        ELSE /\ redemptions' = updateRedemption(redemptions, req[r].redeemId,
                  [status |-> IF Truthy(paymentSuccessful) THEN "paid" ELSE "failed",
                   paid |-> paymentSuccessful, preimage |-> meltResult.preimage,
                   fee |-> meltResult.fee, actualFee |-> meltResult.actualFee,
                   netAmount |-> meltResult.netAmount,
                   paidAt |-> IF Truthy(paymentSuccessful) THEN now ELSE NoNum,
                   rawMeltResponse |-> answer.response])
             /\ req' = [req EXCEPT ![r] = [@ EXCEPT !.pc = "done",
                          !.result = result,
                          !.response = RedeemResponse(result)]]
  /\ UNCHANGED <<tokenHashes, mints, wallets, uuid, now, config, feeArg, feeRes, probe, statusRes>>

\* meltToken resumes with the answer to wallet.meltTokens and returns;
\* performRedemption writes the final status and returns; the handler answers
MeltDone(r, answer) ==
  /\ req[r].pc = "melting"
  /\ LET tokenData == parseToken(req[r].token)
         meltResult == MeltResult(tokenData.totalAmount, req[r].meltQuote, answer.response)
         paymentSuccessful == PaymentSuccessful(meltResult)
         result == [NoResult EXCEPT
                      !.returned = TRUE, !.success = TRUE, !.redeemId = req[r].redeemId,
                      !.paid = paymentSuccessful, !.amount = tokenData.totalAmount,
                      !.invoiceAmount = NetAmountAfterFee(r),
                      !.to = getLightningAddressToUse(req[r].lightningAddress).address,
                      !.usingDefaultAddress = ~Provided(req[r].lightningAddress),
                      !.fee = meltResult.fee, !.actualFee = meltResult.actualFee,
                      !.netAmount = meltResult.netAmount,
                      !.preimage = meltResult.preimage, !.mint = tokenData.mint]
     IN IF ~answer.ok THEN Failed(r, MeltError(answer.error))
        ELSE /\ redemptions' = updateRedemption(redemptions, req[r].redeemId,
                  [status |-> IF Truthy(paymentSuccessful) THEN "paid" ELSE "failed",
                   paid |-> paymentSuccessful, preimage |-> meltResult.preimage,
                   fee |-> meltResult.fee, actualFee |-> meltResult.actualFee,
                   netAmount |-> meltResult.netAmount,
                   paidAt |-> IF Truthy(paymentSuccessful) THEN now ELSE NoNum,
                   rawMeltResponse |-> answer.response])
             /\ req' = [req EXCEPT ![r] = [@ EXCEPT !.pc = "done",
                          !.result = result,
                          !.response = RedeemResponse(result)]]
  /\ UNCHANGED <<tokenHashes, mints, wallets, uuid, now, config, feeArg, feeRes, probe, statusRes>>

\* the answer has been sent; the slot serves the next request
Reset(r) ==
  /\ req[r].pc = "done"
  /\ req' = [req EXCEPT ![r] = IdleRequest]
  /\ UNCHANGED <<redemptions, tokenHashes, mints, wallets, uuid, now, config, feeArg, feeRes, probe, statusRes>>

-----------------------------------------------------------------------------
(* Time and the periodic cleanup *)

\* 24 * 60 * 60 * 1000 ms, in clock ticks
DefaultMaxAgeMs == 1

Tick ==
  /\ now < MaxClock
  /\ now' = now + 1
  /\ UNCHANGED <<redemptions, tokenHashes, mints, wallets, uuid, config, req, feeArg, feeRes, probe, statusRes>>

\* setInterval callback: RedemptionService.cleanupOldRedemptions()
Cleanup ==
  /\ LET expired == Expired(DefaultMaxAgeMs)
         hashes == {redemptions[id].tokenHash : id \in expired}
     IN /\ redemptions' = [id \in DOMAIN redemptions \ expired |-> redemptions[id]]
        /\ tokenHashes' = [h \in DOMAIN tokenHashes \ hashes |-> tokenHashes[h]]
  /\ UNCHANGED <<mints, wallets, uuid, now, config, req, feeArg, feeRes, probe, statusRes>>

-----------------------------------------------------------------------------
(* GET /api/status/:redeemId *)

\* a slip: the read refreshes the entry through updateRedemption
GetStatus_touching(redeemId) ==
  /\ statusRes' = [redeemId |-> redeemId,
                   code |-> IF getRedemptionStatus(redeemId).found THEN 200 ELSE 404,
                   body |-> getRedemptionStatus(redeemId)]
  /\ redemptions' = updateRedemption(redemptions, redeemId, [updatedAt |-> now])
  /\ UNCHANGED <<tokenHashes, mints, wallets, uuid, now, config, req, feeArg, feeRes, probe>>

\* the handler: 404 'Redemption not found' when getRedemptionStatus
\* returns null, otherwise the status object
GetStatus(redeemId) ==
  /\ LET status == getRedemptionStatus(redeemId)
     IN statusRes' =
          IF ~status.found
            THEN [redeemId |-> redeemId, code |-> 404,
                  body |-> [NullStatus EXCEPT
                              !.error = Error(<<"Redemption not found">>, << >>)]]
            ELSE [redeemId |-> redeemId, code |-> 200, body |-> status]
  /\ UNCHANGED <<redemptions, tokenHashes, mints, wallets, uuid, now, config, req,
                 feeArg, feeRes, probe>>

-----------------------------------------------------------------------------
(* What the callers and the external services can send *)

Accepted == [ok |-> TRUE, error |-> NoError]
Refused(msg) == [ok |-> FALSE, error |-> Error(<<msg>>, <<>>)]

Tokens == {"cashuA21000", "cashuA1", "cashuB100", "cashuAempty", "cashuAzero", NoToken}
Addresses == {NoAddress, "user@ln.tips", "not-an-address"}

GetInfoAnswers == {Accepted, Refused("connect ECONNREFUSED")}

CheckAnswers ==
  { [kind |-> "result", spendable |-> <<TRUE>>, error |-> NoError],
    [kind |-> "result", spendable |-> <<>>, error |-> NoError],
    [kind |-> "result", spendable |-> <<FALSE>>, error |-> NoError],
    [kind |-> "result", spendable |-> <<TRUE, FALSE>>, error |-> NoError],
    [kind |-> "error", spendable |-> <<>>,
     error |-> Error(<<"This mint does not support spendability checking (endpoint not found)">>, <<>>)],
    [kind |-> "error", spendable |-> <<>>, error |-> Error(<<"Mint returned HTTP 422">>, <<>>)],
    [kind |-> "error", spendable |-> <<>>, error |-> Error(<<"timeout of 10000ms exceeded">>, <<>>)] }

Lnurlp(kind, callback, min, max) ==
  [kind |-> kind, callback |-> callback, minSendable |-> min, maxSendable |-> max]

LnurlpAnswers ==
  { Lnurlp("ok", "https://provider.example/cb", 1, 100000000),
    Lnurlp("ok", "https://provider.example/cb", 1000, 100000000),
    Lnurlp("ok", "https://provider.example/cb", 30000000, 100000000),
    Lnurlp("ok", "https://provider.example/cb", 20580000, 20580000),
    Lnurlp("ok", "https://provider.example/cb", 1, 20579999),
    Lnurlp("ok", Undefined, 1000, 100000000),
    Lnurlp("status_error", Undefined, NoNum, NoNum),
    Lnurlp("network", Undefined, NoNum, NoNum) }

\* the provider answers the callback with an invoice for the requested amount
InvoiceAnswers(r) ==
  IF req[r].pc # "invoice_fetch" THEN {}
  ELSE { [kind |-> "ok", pr |-> [amountMsats |-> req[r].calls[Len(req[r].calls)].arg]],
         [kind |-> "ok", pr |-> NoInvoice],
         [kind |-> "status_error", pr |-> NoInvoice],
         [kind |-> "network", pr |-> NoInvoice] }

FeeReserves == {0, 420, 421}

\* the mint quotes the amount of the invoice and a fee reserve of its own
QuoteAnswers(r) ==
  IF req[r].pc # "melt_quote" THEN {}
  ELSE { [ok |-> TRUE, error |-> NoError,
          quote |-> [amount |-> millisatsToSats(req[r].bolt11.amountMsats), fee_reserve |-> f]]
           : f \in FeeReserves }
       \cup { [ok |-> FALSE, error |-> Error(<<"Quote not found">>, <<>>), quote |-> NoQuote] }

\* every combination of the success signals, and every combination of the
\* fee fields
MeltResponses ==
  [paid : {JsTrue, JsFalse, Undefined},
   payment_preimage : {Undefined, "", "00ff"},
   preimage : {Undefined, "00ff"},
   state : {Undefined, "PAID", "UNPAID"},
   fee_paid : {420},
   fee : {NoNum}]
  \cup
  [paid : {JsTrue},
   payment_preimage : {"00ff"},
   preimage : {Undefined},
   state : {"PAID"},
   fee_paid : {NoNum, 0, 420},
   fee : {NoNum, 1}]

MeltAnswers ==
  { [ok |-> TRUE, error |-> NoError, response |-> m] : m \in MeltResponses }
  \cup { [ok |-> FALSE, error |-> Error(<<e>>, <<>>), response |-> NoMeltResponse]
           : e \in {"Token already spent", "timeout of 10000ms exceeded"} }

-----------------------------------------------------------------------------
(* One redemption at a time, against every answer of the services *)

MaxSeqAttempts == 1    \* redemptions attempted one after the other

NextSeq ==
  \/ \E t \in Tokens, a \in Addresses : uuid < MaxSeqAttempts /\ Redeem(1, t, a)
  \/ ValidateParsed(1)
  \/ HandlerValidated(1)
  \/ PerformParsed(1)
  \/ SpendParsed(1)
  \/ \E i \in GetInfoAnswers : SpendGetInfoDone(1, i)
  \/ \E c \in CheckAnswers : SpendCheckDone(1, c)
  \/ \E l \in LnurlpAnswers : LnurlpDone(1, l)
  \/ \E i \in InvoiceAnswers(1) : InvoiceDone(1, i)
  \/ MeltParsed(1)
  \/ \E i \in GetInfoAnswers : MeltGetInfoDone(1, i)
  \/ \E q \in QuoteAnswers(1) : MeltQuoteDone(1, q)
  \/ \E m \in MeltAnswers : MeltDone(1, m)
  \/ Reset(1)

SpecSeq == Init /\ [][NextSeq]_vars

\* the same, where every await of the handler is resumed: the event loop
\* runs each continuation that is ready, and each external call returns or
\* fails
Resume(r) ==
  \/ ValidateParsed(r)
  \/ HandlerValidated(r)
  \/ PerformParsed(r)
  \/ SpendParsed(r)
  \/ \E i \in GetInfoAnswers : SpendGetInfoDone(r, i)
  \/ \E c \in CheckAnswers : SpendCheckDone(r, c)
  \/ \E l \in LnurlpAnswers : LnurlpDone(r, l)
  \/ \E i \in InvoiceAnswers(r) : InvoiceDone(r, i)
  \/ MeltParsed(r)
  \/ \E i \in GetInfoAnswers : MeltGetInfoDone(r, i)
  \/ \E q \in QuoteAnswers(r) : MeltQuoteDone(r, q)
  \/ \E m \in MeltAnswers : MeltDone(r, m)

SpecLive == Init /\ [][NextSeq]_vars /\ WF_vars(Resume(1))

-----------------------------------------------------------------------------
(* Concurrent requests, the clock and the periodic cleanup.  The address   *)
(* provider and the mint's quote always succeed here; the connectivity     *)
(* check, the spendability check and the melt succeed or fail.             *)

SomeTokens == {"cashuB100", "cashuA1"}
SomeAddresses == {NoAddress}

SomeCheckAnswers ==
  { [kind |-> "result", spendable |-> <<TRUE>>, error |-> NoError],
    [kind |-> "error", spendable |-> <<>>, error |-> Error(<<"Mint returned HTTP 422">>, <<>>)] }

SomeLnurlpAnswers == {Lnurlp("ok", "https://provider.example/cb", 1, 100000000)}

SomeInvoiceAnswers(r) == {i \in InvoiceAnswers(r) : i.kind = "ok" /\ i.pr # NoInvoice}

SomeQuoteAnswers(r) == {q \in QuoteAnswers(r) : q.quote.fee_reserve = 0}

SomeMeltAnswers ==
  { [ok |-> TRUE, error |-> NoError,
     response |-> [NoMeltResponse EXCEPT !.paid = JsTrue, !.state = "PAID",
                                         !.payment_preimage = "00ff", !.fee_paid = 1]],
    [ok |-> TRUE, error |-> NoError,
     response |-> [NoMeltResponse EXCEPT !.paid = JsFalse, !.state = "UNPAID"]],
    [ok |-> FALSE, error |-> Error(<<"timeout of 10000ms exceeded">>, <<>>),
     response |-> NoMeltResponse] }

Next ==
  \/ \E r \in Requests :
       \/ \E t \in SomeTokens, a \in SomeAddresses : Redeem(r, t, a)
       \/ ValidateParsed(r)
       \/ HandlerValidated(r)
       \/ PerformParsed(r)
       \/ SpendParsed(r)
       \/ \E i \in GetInfoAnswers : SpendGetInfoDone(r, i)
       \/ \E c \in SomeCheckAnswers : SpendCheckDone(r, c)
       \/ \E l \in SomeLnurlpAnswers : LnurlpDone(r, l)
       \/ \E i \in SomeInvoiceAnswers(r) : InvoiceDone(r, i)
       \/ MeltParsed(r)
       \/ \E i \in GetInfoAnswers : MeltGetInfoDone(r, i)
       \/ \E q \in SomeQuoteAnswers(r) : MeltQuoteDone(r, q)
       \/ \E m \in SomeMeltAnswers : MeltDone(r, m)
       \/ Reset(r)
  \/ Tick
  \/ Cleanup

Spec == Init /\ [][Next]_vars

-----------------------------------------------------------------------------
(* One redemption under an explicit allow-list, an empty list, a wildcard *)

GateConfigs ==
  { [allowedDomains |-> {"ln.tips", "getalby.com"}, defaultLightningAddress |-> "admin@example.org"],
    [allowedDomains |-> {}, defaultLightningAddress |-> "admin@example.org"],
    [allowedDomains |-> {"*"}, defaultLightningAddress |-> "admin@example.org"] }

GateAddresses == {"user@evil.com", "user@ln.tips", NoAddress}

InitGate ==
  /\ redemptions = << >>
  /\ tokenHashes = << >>
  /\ mints = {}
  /\ wallets = {}
  /\ uuid = 0
  /\ now = 0
  /\ config \in GateConfigs
  /\ req = [r \in Requests |-> IdleRequest]
  /\ feeArg = 0
  /\ feeRes = NoNum
  /\ probe = NoProbe
  /\ statusRes = NoStatus

NextGate ==
  \/ \E t \in SomeTokens, a \in GateAddresses : uuid < MaxSeqAttempts /\ Redeem(1, t, a)
  \/ ValidateParsed(1)
  \/ HandlerValidated(1)
  \/ PerformParsed(1)
  \/ SpendParsed(1)
  \/ \E i \in GetInfoAnswers : SpendGetInfoDone(1, i)
  \/ \E c \in SomeCheckAnswers : SpendCheckDone(1, c)
  \/ \E l \in SomeLnurlpAnswers : LnurlpDone(1, l)
  \/ \E i \in SomeInvoiceAnswers(1) : InvoiceDone(1, i)
  \/ MeltParsed(1)
  \/ \E i \in GetInfoAnswers : MeltGetInfoDone(1, i)
  \/ \E q \in SomeQuoteAnswers(1) : MeltQuoteDone(1, q)
  \/ \E m \in SomeMeltAnswers : MeltDone(1, m)
  \/ Reset(1)

SpecGate == InitGate /\ [][NextGate]_vars

-----------------------------------------------------------------------------
(* validateAmount applied directly, and inside one redemption *)

MaxProbeAmount == 3    \* largest amount given to a direct validateAmount call

ProbeBounds == {<<1000, 100000000>>, <<1000, 2000>>, <<2000, 3000>>}

AmountProbes ==
  { [op |-> "validateAmount", arg |-> <<amount, b[1], b[2]>>, res |-> "pending"]
      : amount \in 0 .. MaxProbeAmount, b \in ProbeBounds }

InitAmount ==
  /\ redemptions = << >>
  /\ tokenHashes = << >>
  /\ mints = {}
  /\ wallets = {}
  /\ uuid = 0
  /\ now = 0
  /\ config \in Configs
  /\ req = [r \in Requests |-> IdleRequest]
  /\ feeArg = 0
  /\ feeRes = NoNum
  /\ probe \in {NoProbe} \cup AmountProbes
  /\ statusRes = NoStatus

ApplyValidateAmount ==
  /\ probe.op = "validateAmount" /\ probe.res = "pending"
  /\ probe' = [probe EXCEPT !.res =
                 IF validateAmount(probe.arg[1],
                      [minSendable |-> probe.arg[2], maxSendable |-> probe.arg[3]])
                   THEN JsTrue ELSE JsFalse]
  /\ UNCHANGED <<redemptions, tokenHashes, mints, wallets, uuid, now, config, req,
                 feeArg, feeRes, statusRes>>

NextAmount ==
  \/ probe = NoProbe /\ NextSeq
  \/ ApplyValidateAmount

SpecAmount == InitAmount /\ [][NextAmount]_vars

-----------------------------------------------------------------------------
(* One redemption, status reads, the clock and the periodic cleanup *)

RedeemIds == 1 .. MaxAttempts

NextStatus ==
  \/ \E t \in SomeTokens, a \in SomeAddresses : uuid < MaxSeqAttempts /\ Redeem(1, t, a)
  \/ ValidateParsed(1)
  \/ HandlerValidated(1)
  \/ PerformParsed(1)
  \/ SpendParsed(1)
  \/ \E i \in GetInfoAnswers : SpendGetInfoDone(1, i)
  \/ \E c \in SomeCheckAnswers : SpendCheckDone(1, c)
  \/ \E l \in SomeLnurlpAnswers : LnurlpDone(1, l)
  \/ \E i \in SomeInvoiceAnswers(1) : InvoiceDone(1, i)
  \/ MeltParsed(1)
  \/ \E i \in GetInfoAnswers : MeltGetInfoDone(1, i)
  \/ \E q \in SomeQuoteAnswers(1) : MeltQuoteDone(1, q)
  \/ \E m \in SomeMeltAnswers : MeltDone(1, m)
  \/ Reset(1)
  \/ \E id \in RedeemIds : GetStatus(id)
  \/ Tick
  \/ Cleanup

SpecStatus == Init /\ [][NextStatus]_vars

-----------------------------------------------------------------------------
(* One redemption to a provided, a blank or no address, with and without   *)
(* a default address, against every answer of the address provider         *)

AddressConfigs ==
  { [allowedDomains |-> {"*"}, defaultLightningAddress |-> "admin@example.org"],
    [allowedDomains |-> {"ln.tips", "example.org"}, defaultLightningAddress |-> "admin@example.org"],
    [allowedDomains |-> {"*"}, defaultLightningAddress |-> Undefined] }

AddressInputs ==
  {NoAddress, "", "  ", "user@ln.tips", " user@ln.tips ", "user@evil.com", "not-an-address"}

InitAddress ==
  /\ redemptions = << >>
  /\ tokenHashes = << >>
  /\ mints = {}
  /\ wallets = {}
  /\ uuid = 0
  /\ now = 0
  /\ config \in AddressConfigs
  /\ req = [r \in Requests |-> IdleRequest]
  /\ feeArg = 0
  /\ feeRes = NoNum
  /\ probe = NoProbe
  /\ statusRes = NoStatus

NextAddress ==
  \/ \E t \in SomeTokens, a \in AddressInputs : uuid < MaxSeqAttempts /\ Redeem(1, t, a)
  \/ ValidateParsed(1)
  \/ HandlerValidated(1)
  \/ PerformParsed(1)
  \/ SpendParsed(1)
  \/ \E i \in GetInfoAnswers : SpendGetInfoDone(1, i)
  \/ \E c \in SomeCheckAnswers : SpendCheckDone(1, c)
  \/ \E l \in LnurlpAnswers : LnurlpDone(1, l)
  \/ \E i \in InvoiceAnswers(1) : InvoiceDone(1, i)
  \/ MeltParsed(1)
  \/ \E i \in GetInfoAnswers : MeltGetInfoDone(1, i)
  \/ \E q \in SomeQuoteAnswers(1) : MeltQuoteDone(1, q)
  \/ \E m \in SomeMeltAnswers : MeltDone(1, m)
  \/ Reset(1)

SpecAddress == InitAddress /\ [][NextAddress]_vars

-----------------------------------------------------------------------------
(* Requests one after the other, well-formed or not, with or without a     *)
(* default address, a later request coming after an attempt was stored     *)

ValidateTokens ==
  {"cashuA21000", " cashuA21000 ", "cashuAempty", "cashuAzero", "hello", NoToken}

ValidateAddresses == {NoAddress, "user@ln.tips", "not-an-address"}

NextValidate ==
  \/ \E t \in ValidateTokens, a \in ValidateAddresses :
       uuid < MaxAttempts /\ Redeem(1, t, a)
  \/ ValidateParsed(1)
  \/ HandlerValidated(1)
  \/ PerformParsed(1)
  \/ SpendParsed(1)
  \/ \E i \in GetInfoAnswers : SpendGetInfoDone(1, i)
  \/ \E c \in SomeCheckAnswers : SpendCheckDone(1, c)
  \/ \E l \in SomeLnurlpAnswers : LnurlpDone(1, l)
  \/ \E i \in SomeInvoiceAnswers(1) : InvoiceDone(1, i)
  \/ MeltParsed(1)
  \/ \E i \in GetInfoAnswers : MeltGetInfoDone(1, i)
  \/ \E q \in SomeQuoteAnswers(1) : MeltQuoteDone(1, q)
  \/ \E m \in SomeMeltAnswers : MeltDone(1, m)
  \/ Reset(1)

SpecValidate == InitAddress /\ [][NextValidate]_vars

-----------------------------------------------------------------------------
(* One redemption where the callback of the address provider answers with  *)
(* an invoice for the amount requested, or for a thousand millisats less   *)
(* or more                                                                 *)

InvoiceDeviations == {-1000, 1000}

AnyInvoiceAnswers(r) ==
  InvoiceAnswers(r)
  \cup (IF req[r].pc # "invoice_fetch" THEN {}
        ELSE { [kind |-> "ok",
                pr |-> [amountMsats |-> req[r].calls[Len(req[r].calls)].arg + d]]
                 : d \in InvoiceDeviations })

InvoiceTokens == {"cashuA21000", "cashuB100"}

NextInvoice ==
  \/ \E t \in InvoiceTokens, a \in Addresses : uuid < MaxSeqAttempts /\ Redeem(1, t, a)
  \/ ValidateParsed(1)
  \/ HandlerValidated(1)
  \/ PerformParsed(1)
  \/ SpendParsed(1)
  \/ \E i \in GetInfoAnswers : SpendGetInfoDone(1, i)
  \/ \E c \in SomeCheckAnswers : SpendCheckDone(1, c)
  \/ \E l \in SomeLnurlpAnswers : LnurlpDone(1, l)
  \/ \E i \in AnyInvoiceAnswers(1) : InvoiceDone(1, i)
  \/ MeltParsed(1)
  \/ \E i \in GetInfoAnswers : MeltGetInfoDone(1, i)
  \/ \E q \in QuoteAnswers(1) : MeltQuoteDone(1, q)
  \/ \E m \in SomeMeltAnswers : MeltDone(1, m)
  \/ Reset(1)

SpecInvoice == Init /\ [][NextInvoice]_vars

-----------------------------------------------------------------------------
(* isDomainAllowed applied directly, under every explicit allow-list made  *)
(* of these entries                                                        *)

DomainEntries == {"ln.tips", "LN.TIPS", "Ln.Tips", "getalby.com"}

DomainConfigs ==
  { [allowedDomains |-> list, defaultLightningAddress |-> "admin@example.org"]
      : list \in (SUBSET DomainEntries) \ {{}} }

DomainProbes ==
  { [op |-> "isDomainAllowed", arg |-> <<domain>>, res |-> "pending"]
      : domain \in {"ln.tips", "LN.TIPS", "Ln.Tips", "getalby.com", "GETALBY.COM", "evil.com"} }

InitDomain ==
  /\ redemptions = << >>
  /\ tokenHashes = << >>
  /\ mints = {}
  /\ wallets = {}
  /\ uuid = 0
  /\ now = 0
  /\ config \in DomainConfigs
  /\ req = [r \in Requests |-> IdleRequest]
  /\ feeArg = 0
  /\ feeRes = NoNum
  /\ probe \in DomainProbes
  /\ statusRes = NoStatus

ApplyIsDomainAllowed ==
  /\ probe.op = "isDomainAllowed" /\ probe.res = "pending"
  /\ probe' = [probe EXCEPT !.res =
                 IF isDomainAllowed(probe.arg[1]) THEN JsTrue ELSE JsFalse]
  /\ UNCHANGED <<redemptions, tokenHashes, mints, wallets, uuid, now, config, req,
                 feeArg, feeRes, statusRes>>

NextDomain == ApplyIsDomainAllowed

SpecDomain == InitDomain /\ [][NextDomain]_vars

-----------------------------------------------------------------------------
(* calculateFee applied directly to an amount *)

FeeAmounts == (1 .. MaxFeeAmount) \cup {21000}

InitFee ==
  /\ redemptions = << >>
  /\ tokenHashes = << >>
  /\ mints = {}
  /\ wallets = {}
  /\ uuid = 0
  /\ now = 0
  /\ config \in Configs
  /\ req = [r \in Requests |-> IdleRequest]
  /\ feeArg \in FeeAmounts
  /\ feeRes = NoNum
  /\ probe = NoProbe
  /\ statusRes = NoStatus

ApplyFee ==
  /\ feeRes = NoNum
  /\ feeRes' = calculateFee(feeArg)
  /\ UNCHANGED <<redemptions, tokenHashes, mints, wallets, uuid, now, config, req, feeArg, probe, statusRes>>

NextFee == ApplyFee

SpecFee == InitFee /\ [][NextFee]_vars

-----------------------------------------------------------------------------
(* POST /api/decode, with the checkTokenSpendable that marks a spent token *)
(* as TOKEN_SPENT                                                          *)

\* checkTokenSpendable, catch block: the errorMessage extracted from what
\* mint.check or getMint threw
ExtractedMessage(error) ==
  IF error.kind = "HttpResponseError"
    THEN IF error.status = 422
           THEN IF error.detail # Undefined
                  THEN Error(<<"Token validation failed: ", error.detail>>, << >>)
                  ELSE Error(<<"Token proofs are not spendable - they may have already been used or are invalid">>, << >>)
         ELSE IF error.status = 404
           THEN Error(<<"This mint does not support spendability checking (endpoint not found)">>, << >>)
         ELSE IF error.status = 405
           THEN Error(<<"This mint does not support spendability checking (method not allowed)">>, << >>)
         ELSE IF error.status = 501
           THEN Error(<<"This mint does not support spendability checking (not implemented)">>, << >>)
         \* (a status that reaches this line holds none of the digits tested below)
         ELSE Error(<<"Mint returned HTTP ">>, <<error.status>>)
    ELSE error.message

\* checkTokenSpendable, catch block: the error it throws for a spent token
TokenSpent ==
  Error(<<"TOKEN_SPENT: Token proofs are not spendable - they have already been used">>, << >>)

\* checkTokenSpendable, catch block: the error it throws for what it caught
SpendableCheckError(error) ==
  LET errorMessage == ExtractedMessage(error)
  IN IF \/ includes(errorMessage, "not supported") \/ includes(errorMessage, "404")
        \/ includes(errorMessage, "405") \/ includes(errorMessage, "501")
        \/ includes(errorMessage, "Method not allowed")
        \/ includes(errorMessage, "endpoint not found")
        \/ includes(errorMessage, "not implemented")
        \/ includes(errorMessage, "Invalid response from mint")
       THEN Error(<<"This mint does not support spendability checking. Token may still be valid.">>, << >>)
     ELSE IF error.status = 422
       THEN IF \/ includes(errorMessage, "already been used")
               \/ includes(errorMessage, "already spent")
               \/ includes(errorMessage, "not spendable")
              THEN TokenSpent
              ELSE Wrap("Token validation failed at mint: ", errorMessage)
     ELSE IF \/ includes(errorMessage, "Token proofs are not spendable")
             \/ includes(errorMessage, "already been used")
             \/ includes(errorMessage, "invalid proofs")
       THEN TokenSpent
     ELSE Wrap("Failed to check token spendability: ", errorMessage)

\* the handler, catch of the spendability check: the spent flag for what
\* checkTokenSpendable threw
SpentFromError(error) ==
  IF includes(error, "TOKEN_SPENT:") THEN JsTrue
  ELSE IF includes(error, "Token validation failed at mint:") THEN JsFalse
  ELSE IF \/ includes(error, "not supported") \/ includes(error, "endpoint not found")
          \/ includes(error, "may still be valid")
          \/ includes(error, "does not support spendability checking")
    THEN JsFalse
  ELSE JsFalse

\* the handler answers 200 with the decoded token and the spent flag
Decoded(r, locals, spent) ==
  LET decoded == parseToken(req[r].token)
  IN req' = [req EXCEPT ![r] = [locals EXCEPT !.pc = "done",
               !.response = [NoResponse EXCEPT !.status = 200, !.success = TRUE,
                               !.amount = decoded.totalAmount,
                               !.mint_url = decoded.mint, !.spent = spent]]]

\* the handler is entered: it answers 400, or runs up to its await of
\* parseToken
Decode(r, token) ==
  /\ req[r].pc = "idle"
  /\ req' = [req EXCEPT ![r] =
               IF ~Truthy(token)
                 THEN [IdleRequest EXCEPT !.pc = "done", !.token = token,
                         !.response = [NoResponse EXCEPT !.status = 400,
                                         !.error = Error(<<"Token is required">>, << >>)]]
               ELSE IF ~isValidTokenFormat(token)
                 THEN [IdleRequest EXCEPT !.pc = "done", !.token = token,
                         !.response = [NoResponse EXCEPT !.status = 400,
                                         !.error = Error(<<"Invalid token format. Must be a valid Cashu token">>, << >>)]]
               ELSE [IdleRequest EXCEPT !.pc = "decode_parse", !.token = token]]
  /\ UNCHANGED <<redemptions, tokenHashes, mints, wallets, uuid, now, config, feeArg, feeRes, probe, statusRes>>

\* the handler resumes with the parsed token, or answers 400 with what
\* parseToken threw, and awaits getTokenMintUrl
DecodeParsed(r) ==
  /\ req[r].pc = "decode_parse"
  /\ LET decoded == parseToken(req[r].token)
     IN req' = [req EXCEPT ![r] =
                  IF ~decoded.ok
                    THEN [@ EXCEPT !.pc = "done",
                            !.response = [NoResponse EXCEPT !.status = 400,
                                            !.error = Error(decoded.error, << >>)]]
                    ELSE [@ EXCEPT !.pc = "decode_mint_url"]]
  /\ UNCHANGED <<redemptions, tokenHashes, mints, wallets, uuid, now, config, feeArg, feeRes, probe, statusRes>>

\* the handler resumes with the mint URL and calls checkTokenSpendable,
\* which awaits parseToken
DecodeMintUrl(r) ==
  /\ req[r].pc = "decode_mint_url"
  /\ req' = [req EXCEPT ![r] = [@ EXCEPT !.pc = "decode_spend_parse"]]
  /\ UNCHANGED <<redemptions, tokenHashes, mints, wallets, uuid, now, config, feeArg, feeRes, probe, statusRes>>

\* checkTokenSpendable resumes with the parsed token and calls getMint
DecodeSpendParsed(r) ==
  /\ req[r].pc = "decode_spend_parse"
  /\ LET parsed == parseToken(req[r].token)
     IN req' = [req EXCEPT ![r] =
                  IF parsed.mint \in mints
                    THEN [@ EXCEPT !.pc = "decode_check",
                                   !.handle = [kind |-> "mint",
                                               url |-> CacheGet(mints, parsed.mint)],
                                   !.calls = Append(@, Call("mint.check", NoNum))]
                    ELSE [@ EXCEPT !.pc = "decode_getinfo",
                                   !.calls = Append(@, Call("mint.getInfo", NoNum))]]
  /\ UNCHANGED <<redemptions, tokenHashes, mints, wallets, uuid, now, config, feeArg, feeRes, probe, statusRes>>

\* getMint resumes with the answer to mint.getInfo
DecodeGetInfoDone(r, info) ==
  /\ req[r].pc = "decode_getinfo"
  /\ LET parsed == parseToken(req[r].token)
         thrown == [NoCheckResult EXCEPT !.kind = "Error",
                      !.message = Wrap("Failed to connect to mint: ", info.error)]
     IN IF info.ok
          THEN /\ mints' = mints \cup {parsed.mint}
               /\ req' = [req EXCEPT ![r] = [@ EXCEPT !.pc = "decode_check",
                            !.handle = [kind |-> "mint",
                                        url |-> CacheGet(mints', parsed.mint)],
                            !.calls = Append(@, Call("mint.check", NoNum))]]
          ELSE /\ mints' = mints
               /\ Decoded(r, [req[r] EXCEPT !.checkResult = thrown],
                          SpentFromError(SpendableCheckError(thrown)))
  /\ UNCHANGED <<redemptions, tokenHashes, wallets, uuid, now, config, feeArg, feeRes, probe, statusRes>>

\* checkTokenSpendable resumes with the answer to mint.check, returns or
\* throws, and the handler answers
DecodeCheckDone(r, check) ==
  /\ req[r].pc = "decode_check"
  /\ Decoded(r, [req[r] EXCEPT !.checkResult = check],
             IF check.kind = "result"
               THEN IF Len(check.spendable) = 0 THEN JsTrue ELSE JsFalse
               ELSE SpentFromError(SpendableCheckError(check)))
  /\ UNCHANGED <<redemptions, tokenHashes, mints, wallets, uuid, now, config, feeArg, feeRes, probe, statusRes>>

\* what mint.check returns or throws
DecodeCheckAnswers ==
  { [NoCheckResult EXCEPT !.kind = "result", !.spendable = s]
      : s \in {<<TRUE>>, << >>, <<FALSE>>, <<TRUE, FALSE>>, <<FALSE, FALSE>>} }
  \cup
  { [NoCheckResult EXCEPT !.kind = "HttpResponseError", !.status = 422, !.detail = d]
      : d \in {Undefined, "Token already spent", "Proofs are pending"} }
  \cup
  { [NoCheckResult EXCEPT !.kind = "HttpResponseError", !.status = n]
      : n \in {404, 405, 501, 500} }
  \cup
  { [NoCheckResult EXCEPT !.kind = "Error", !.message = Error(<<m>>, << >>)]
      : m \in {"timeout of 10000ms exceeded", "connect ECONNREFUSED"} }

DecodeTokens ==
  {"cashuA21000", "cashuA1", "cashuB100", "cashuAempty", "cashuAzero",
   " cashuA21000 ", NoToken}

NextDecode ==
  \/ \E t \in DecodeTokens : Decode(1, t)
  \/ DecodeParsed(1)
  \/ DecodeMintUrl(1)
  \/ DecodeSpendParsed(1)
  \/ \E i \in GetInfoAnswers : DecodeGetInfoDone(1, i)
  \/ \E c \in DecodeCheckAnswers : DecodeCheckDone(1, c)
  \/ Reset(1)

SpecDecode == Init /\ [][NextDecode]_vars

-----------------------------------------------------------------------------
(* Vocabulary of the properties *)

\* the ledger entry of the attempt that request r started
Entry(r) == redemptions[req[r].redeemId]

HasEntry(r) == req[r].redeemId \in DOMAIN redemptions

\* the external operations request r has sent so far
Ops(r) == {req[r].calls[i].op : i \in 1 .. Len(req[r].calls)}

\* the amount the proofs of a well-formed token add up to
Declared(token) == parseToken(token).totalAmount

\* max(1, ceil(amount * 2 / 100)) in exact integer arithmetic
ProtocolMinFee(amount) ==
  LET ceil == (2 * amount + 99) \div 100
  IN IF ceil < 1 THEN 1 ELSE ceil

\* a melt response carries at least one of the success signals
Signal(m) ==
  \/ m.paid = JsTrue
  \/ m.payment_preimage \notin {Undefined, ""}
  \/ m.preimage \notin {Undefined, ""}
  \/ m.state = "PAID"

\* the ledger entries holding the fingerprint of a token
Prior(token) ==
  {id \in DOMAIN redemptions : redemptions[id].tokenHash = generateTokenHash(token)}

\* request r is running an attempt that has left ParsingToken
PastParsingToken(r) == req[r].pc \in InPerform \ {"parsing_token"}

-----------------------------------------------------------------------------
(* C1 *)

\* C1: of two requests in flight together with the same token, at most one
\* has an attempt that proceeds past ParsingToken (the other is rejected
\* as already redeemed before it starts an attempt).
C1_OneAttemptPerToken ==
  \A r1, r2 \in Requests :
    (r1 # r2 /\ req[r1].token = req[r2].token /\ PastParsingToken(r1))
      => ~PastParsingToken(r2)

-----------------------------------------------------------------------------
(* C2 *)

\* C2: while the ledger holds an attempt for a fingerprint that is not
\* Failed (non-terminal or Paid), a request arriving with the same token is
\* never let through the duplicate guard.
C2_LaterRequestRejected ==
  [][\A r \in Requests :
       (req[r].pc = "idle" /\ req'[r].pc = "validating")
         => \A id \in Prior(req'[r].token) : redemptions[id].status = "failed"]_vars

-----------------------------------------------------------------------------
(* C3 *)

\* C3: a request with a token whose prior attempts all ended Failed is not
\* rejected as already redeemed.
C3_FailedMayRetry ==
  [][\A r \in Requests :
       ( /\ req[r].pc = "idle" /\ req'[r].pc # "idle"
         /\ Prior(req'[r].token) # {}
         /\ \A id \in Prior(req'[r].token) : redemptions[id].status = "failed" )
         => \A i \in 1 .. Len(req'[r].errors) :
              req'[r].errors[i] # "Token has already been redeemed"]_vars

-----------------------------------------------------------------------------
(* C4 *)

\* C4: an attempt is marked Paid only if the melt response carried a success
\* signal (paid flag true, a preimage, or state PAID), and once a melt
\* response is recorded the attempt is Paid if it carried a signal and
\* Failed if it carried none.
C4_PaidIffSignal ==
  \A id \in DOMAIN redemptions :
    LET e == redemptions[id]
        m == e.rawMeltResponse
    IN /\ e.status = "paid" => Signal(m)
       /\ m # NoMeltResponse =>
            e.status = (IF Signal(m) THEN "paid" ELSE "failed")

\* C4 witness: a response with paid false and state PAID only, marked Paid
C4_Witness ==
  \E id \in DOMAIN redemptions :
    LET m == redemptions[id].rawMeltResponse
    IN /\ m.paid = JsFalse /\ m.state = "PAID"
       /\ m.preimage = Undefined /\ m.payment_preimage = Undefined
       /\ redemptions[id].status = "paid"

-----------------------------------------------------------------------------
(* C5 *)

\* C5: when the melt response carries no success signal, the attempt is
\* Failed, and the result reports success false with an error message.
C5_NoSignalIsFailure ==
  \A r \in Requests :
    ( /\ req[r].pc = "done" /\ HasEntry(r)
      /\ Entry(r).rawMeltResponse # NoMeltResponse
      /\ ~Signal(Entry(r).rawMeltResponse) )
      => /\ Entry(r).status = "failed"
         /\ req[r].result.success = FALSE
         /\ req[r].result.error # NoError
         /\ req[r].response.success = FALSE

-----------------------------------------------------------------------------
(* C6 *)

\* the scenario: token of 21000 to the default address, invoice of 20580,
\* quote 20580 + 420, melt answered paid with a fee of 420
C6_Scenario(r) ==
  /\ req[r].pc = "done" /\ HasEntry(r)
  /\ req[r].token = "cashuA21000" /\ req[r].lightningAddress = NoAddress
  /\ req[r].meltQuote = [amount |-> 20580, fee_reserve |-> 420]
  /\ Entry(r).rawMeltResponse.paid = JsTrue
  /\ Entry(r).rawMeltResponse.fee_paid = 420

\* C6: in the scenario the result is success, paid true, amount 21000,
\* invoiceAmount 20580, fee 420, netAmount 20580, usingDefaultAddress true,
\* and the ledger entry is Paid.
C6_EndToEnd ==
  \A r \in Requests :
    C6_Scenario(r) =>
      /\ req[r].result.success /\ req[r].result.paid = JsTrue
      /\ req[r].result.amount = 21000 /\ req[r].result.invoiceAmount = 20580
      /\ req[r].result.fee = 420 /\ req[r].result.netAmount = 20580
      /\ req[r].result.usingDefaultAddress
      /\ req[r].result.to = config.defaultLightningAddress
      /\ req[r].response.status = 200 /\ req[r].response.success
      /\ req[r].response.paid = JsTrue /\ req[r].response.amount = 21000
      /\ req[r].response.invoiceAmount = 20580 /\ req[r].response.fee = 420
      /\ req[r].response.netAmount = 20580 /\ req[r].response.usingDefaultAddress
      /\ Entry(r).status = "paid"

\* C6 witness: the scenario has run to its end
C6_Witness == \E r \in Requests : C6_Scenario(r) /\ req[r].result.returned

-----------------------------------------------------------------------------
(* C7 *)

\* C7: calculateFee(amount) is max(1, ceil(amount * 0.02)): 1 for an amount
\* of 10, 420 for an amount of 21000.
C7_ProtocolMinFee ==
  feeRes # NoNum =>
    /\ feeRes = ProtocolMinFee(feeArg)
    /\ feeArg = 10 => feeRes = 1
    /\ feeArg = 21000 => feeRes = 420

\* C7 witness: the fee of 21000 has been computed
C7_Witness == feeArg = 21000 /\ feeRes = 420

-----------------------------------------------------------------------------
(* C8 *)

-----------------------------------------------------------------------------
(* C9 *)

\* the token of request r parses and its declared amount does not exceed
\* the protocol minimum fee
C9_NothingLeft(r) ==
  /\ parseToken(req[r].token).ok
  /\ Declared(req[r].token) - ProtocolMinFee(Declared(req[r].token)) <= 0

\* C9: an attempt whose declared amount less the fee is not positive sends
\* no request to the mint or the address provider, never goes beyond
\* ParsingToken, and ends Failed with the insufficient-value message.
C9_InsufficientValue ==
  \A r \in Requests :
    (C9_NothingLeft(r) /\ req[r].redeemId # NoNum) =>
      /\ req[r].calls = << >>
      /\ req[r].pc \in {"parsing_token", "done"}
      /\ req[r].pc = "done" =>
           /\ req[r].result.returned /\ ~req[r].result.success
           /\ req[r].result.error.text =
                <<"Token amount is insufficient to cover the minimum fee">>
           /\ HasEntry(r) /\ Entry(r).status = "failed"

\* C9 witness: an attempt ended with the insufficient-value failure
C9_Witness ==
  \E r \in Requests :
    /\ C9_NothingLeft(r) /\ req[r].pc = "done" /\ req[r].result.returned
    /\ req[r].result.error.text =
         <<"Token amount is insufficient to cover the minimum fee">>
    /\ req[r].calls = << >>

-----------------------------------------------------------------------------
(* C10 *)

\* C10: proofs are submitted for melting only under a quote whose amount
\* plus fee reserve is within the declared amount; under any other quote the
\* attempt ends Failed with a message carrying the required and the
\* available figure, and no melt is submitted.
C10_FundsCheck ==
  \A r \in Requests :
    LET q == req[r].meltQuote
        declared == Declared(req[r].token)
    IN /\ "wallet.meltTokens" \in Ops(r) =>
            q # NoQuote /\ q.amount + q.fee_reserve <= declared
       /\ (q # NoQuote /\ q.amount + q.fee_reserve > declared) =>
            /\ "wallet.meltTokens" \notin Ops(r)
            /\ req[r].pc = "done" /\ ~req[r].result.success
            /\ req[r].result.error =
                 Error(<<"Insufficient funds. Required / Available">>,
                       <<q.amount + q.fee_reserve, q.fee_reserve, declared>>)
            /\ HasEntry(r) /\ Entry(r).status = "failed"

\* C10 witness: a quote of 20580 + 421 against 21000 ended the attempt
C10_Witness ==
  \E r \in Requests :
    /\ req[r].meltQuote = [amount |-> 20580, fee_reserve |-> 421]
    /\ req[r].pc = "done" /\ "wallet.meltTokens" \notin Ops(r)
    /\ req[r].result.error.nums = <<21001, 421, 21000>>

-----------------------------------------------------------------------------
(* C11 *)

\* the fee a melt response says the mint charged: fee_paid, else fee
C11_Charged(m) == IF m.fee_paid # NoNum THEN m.fee_paid ELSE m.fee

\* C11: on a settled redemption whose melt response states the fee the mint
\* charged, the reported fee is that fee and netAmount is the declared
\* amount less that fee, for every fee including 0 and fees other than the
\* quoted fee reserve.
C11_ActualFee ==
  \A r \in Requests :
    ( /\ req[r].pc = "done" /\ req[r].result.success /\ HasEntry(r)
      /\ Entry(r).status = "paid"
      /\ C11_Charged(Entry(r).rawMeltResponse) # NoNum )
      => /\ req[r].result.fee = C11_Charged(Entry(r).rawMeltResponse)
         /\ req[r].result.netAmount =
              Declared(req[r].token) - C11_Charged(Entry(r).rawMeltResponse)
         /\ req[r].response.fee = req[r].result.fee
         /\ req[r].response.netAmount = req[r].result.netAmount

-----------------------------------------------------------------------------
(* C12 *)

\* the address request r pays to has a domain that an explicit allow-list
\* (not empty, no wildcard) does not name
C12_OffList(r) ==
  LET address == IF req[r].lightningAddress = NoAddress
                   THEN config.defaultLightningAddress ELSE req[r].lightningAddress
  IN /\ req[r].pc # "idle"
     /\ AddressParts(address).wellFormed
     /\ config.allowedDomains # {} /\ "*" \notin config.allowedDomains
     /\ AddressParts(address).domain \notin config.allowedDomains

\* C12: a redemption whose target address is off an explicit allow-list
\* has sent no request to the mint or to the address provider (no mint
\* call, no well-known fetch, no invoice callback), and when it has ended
\* it has failed.
C12_DomainGate ==
  \A r \in Requests :
    C12_OffList(r) =>
      /\ req[r].calls = << >>
      /\ req[r].pc = "done" => (~req[r].result.success /\ ~req[r].response.success)

-----------------------------------------------------------------------------
(* C13 *)

\* min <= amount * 1000 <= max, both bounds inclusive
C13_InRange(amount, min, max) == min <= amount * 1000 /\ amount * 1000 <= max

\* the amount request r asks an invoice for
C13_Net(r) == Declared(req[r].token) - ProtocolMinFee(Declared(req[r].token))

\* C13: the callback is requested only if min <= amount*1000 <= max for the
\* provider's bounds, inclusive; otherwise the resolution fails with the
\* out-of-range error and no callback request is made.  A direct
\* validateAmount call answers the same test: with bounds 1000 and
\* 100000000, amount 0 fails and amount 1 passes.
C13_AmountBounds ==
  /\ \A r \in Requests :
       req[r].lnurlp # NoLnurlp =>
         IF C13_InRange(C13_Net(r), req[r].lnurlp.minSendable, req[r].lnurlp.maxSendable)
           THEN /\ req[r].calls[Len(req[r].calls)] = Call("lnurlp.callback", 1000 * C13_Net(r))
                /\ req[r].pc = "done" =>
                     req[r].result.error.text[Len(req[r].result.error.text)]
                       # "Amount is outside allowed range"
           ELSE /\ "lnurlp.callback" \notin Ops(r)
                /\ req[r].pc = "done" /\ ~req[r].result.success
                /\ req[r].result.error.text[Len(req[r].result.error.text)]
                     = "Amount is outside allowed range"
                /\ HasEntry(r) /\ Entry(r).status = "failed"
  /\ \A r \in Requests :
       "lnurlp.callback" \in Ops(r) /\ req[r].pc = "invoice_fetch" => req[r].lnurlp # NoLnurlp
  /\ (probe.op = "validateAmount" /\ probe.res # "pending") =>
       /\ probe.res = (IF C13_InRange(probe.arg[1], probe.arg[2], probe.arg[3])
                         THEN JsTrue ELSE JsFalse)
       /\ probe.arg = <<0, 1000, 100000000>> => probe.res = JsFalse
       /\ probe.arg = <<1, 1000, 100000000>> => probe.res = JsTrue

\* C13 witness: an invoice was requested for an amount equal to both bounds
C13_Witness ==
  \E r \in Requests :
    /\ req[r].pc = "invoice_fetch"
    /\ req[r].lnurlp = [minSendable |-> 20580000, maxSendable |-> 20580000]
    /\ Call("lnurlp.callback", 20580000) = req[r].calls[Len(req[r].calls)]

-----------------------------------------------------------------------------
(* C14 *)

\* the attempt with this id is in the ledger and has ended
C14_Terminal(id) ==
  id \in DOMAIN redemptions /\ redemptions[id].status \in {"paid", "failed"}

\* C14: a status read leaves the ledger as it is and answers with the data
\* of the entry; the data read for an ended attempt stays the same from step
\* to step until the entry is removed; from then on the id is not found.
C14_StableReads ==
  [][ /\ statusRes' # statusRes =>
           /\ redemptions' = redemptions /\ tokenHashes' = tokenHashes
           /\ IF statusRes'.redeemId \in DOMAIN redemptions
                THEN statusRes'.code = 200
                     /\ statusRes'.body = getRedemptionStatus(statusRes'.redeemId)
                ELSE statusRes'.code = 404 /\ ~statusRes'.body.found
      /\ \A id \in RedeemIds :
           /\ C14_Terminal(id) =>
                IF id \in DOMAIN redemptions'
                  THEN getRedemptionStatus(id)' = getRedemptionStatus(id)
                  ELSE getRedemptionStatus(id)' = NullStatus
           /\ (id <= uuid /\ id \notin DOMAIN redemptions) => id \notin DOMAIN redemptions'
    ]_vars

\* C14 witness: an ended attempt was swept and then read as not found
C14_Witness ==
  /\ statusRes.code = 404 /\ statusRes.redeemId <= uuid
  /\ statusRes.redeemId \notin DOMAIN redemptions
  /\ \E r \in Requests :
       /\ req[r].redeemId = statusRes.redeemId
       /\ req[r].pc = "done" /\ req[r].result.returned

-----------------------------------------------------------------------------
(* C15 *)

\* C15: an entry that leaves the ledger was Paid or Failed: the sweep never
\* removes an entry in a non-terminal state, whatever its age.
C15_SweepKeepsLive ==
  [][\A id \in DOMAIN redemptions :
       id \notin DOMAIN redemptions' => redemptions[id].status \in {"paid", "failed"}]_vars

-----------------------------------------------------------------------------
(* C16 *)

\* one step forward along the chain of the non-terminal states
C16_Step ==
  { <<"processing", "parsing_token">>, <<"parsing_token", "checking_spendability">>,
    <<"checking_spendability", "resolving_invoice">>,
    <<"resolving_invoice", "melting_token">> }

\* C16: in every step, the state of each attempt stays, moves one step
\* forward along Processing -> ParsingToken -> CheckingSpendability ->
\* ResolvingInvoice -> MeltingToken, goes to Failed from a non-terminal
\* state, or goes to Paid from MeltingToken; a Paid or Failed attempt keeps
\* its state; a new attempt starts at the head of the chain.
C16_ForwardOnly ==
  [][\A id \in DOMAIN redemptions' :
       LET to == redemptions'[id].status
       IN IF id \in DOMAIN redemptions
            THEN LET from == redemptions[id].status
                 IN \/ to = from
                    \/ from \notin {"paid", "failed"} /\ to = "failed"
                    \/ from = "melting_token" /\ to = "paid"
                    \/ <<from, to>> \in C16_Step
            ELSE to \in {"processing", "parsing_token"}]_vars

\* C16 witness: an attempt has gone through the chain to Paid
C16_Witness ==
  \E r \in Requests :
    /\ HasEntry(r) /\ Entry(r).status = "paid"
    /\ Ops(r) = {"mint.getInfo", "mint.check", "lnurlp.fetch", "lnurlp.callback",
                 "wallet.createMeltQuote", "wallet.meltTokens"}

-----------------------------------------------------------------------------
(* C17 *)

\* what the spendability check gave request r is a clear already-used
\* signal: the mint reports no proof spendable, or rejects with HTTP 422
C17_ClearlySpent(r) ==
  LET c == req[r].spendCheck
  IN \/ c.kind = "result" /\ \A i \in 1 .. Len(c.spendable) : ~c.spendable[i]
     \/ c.kind = "error" /\ \E i \in 1 .. Len(c.error.text) :
                               c.error.text[i] = "Mint returned HTTP 422"

\* C17: after a clear already-used signal the attempt is Failed with the
\* already-spent error, and neither the address resolver nor the melt has
\* been called.
C17_SpentStops ==
  \A r \in Requests :
    C17_ClearlySpent(r) =>
      /\ req[r].pc = "done" /\ ~req[r].result.success
      /\ req[r].result.error = AlreadySpent
      /\ HasEntry(r) /\ Entry(r).status = "failed"
      /\ Ops(r) \cap {"lnurlp.fetch", "lnurlp.callback",
                       "wallet.createMeltQuote", "wallet.meltTokens"} = {}

-----------------------------------------------------------------------------
(* C18 *)

\* what the spendability check gave request r is an unsupported-operation
\* signal, a network-class error, or a result in which only some proofs
\* are spendable
C18_Advisory(r) ==
  LET c == req[r].spendCheck
  IN \/ c.kind = "error" /\ c.error.text[Len(c.error.text)] \in
          {"This mint does not support spendability checking. Token may still be valid.",
           "timeout of 10000ms exceeded", "connect ECONNREFUSED"}
     \/ c.kind = "result" /\ \E i, j \in 1 .. Len(c.spendable) :
                                c.spendable[i] /\ ~c.spendable[j]

\* C18: after an unsupported-operation signal, an ambiguous result or a
\* network-class error of the spendability check, the attempt is not failed
\* or marked spent: it is in ResolvingInvoice, with the address lookup sent.
C18_AdvisoryCheck ==
  \A r \in Requests :
    C18_Advisory(r) =>
      /\ req[r].pc = "lnurlp_fetch"
      /\ req[r].calls[Len(req[r].calls)].op = "lnurlp.fetch"
      /\ ~req[r].result.returned
      /\ HasEntry(r) /\ Entry(r).status = "resolving_invoice"
      /\ Entry(r).error = NoError

\* C18 witness: a timed-out spendability check, and the attempt resolving
C18_Witness ==
  \E r \in Requests :
    /\ req[r].spendCheck.kind = "error"
    /\ req[r].spendCheck.error.text[Len(req[r].spendCheck.error.text)]
         = "timeout of 10000ms exceeded"
    /\ req[r].pc = "lnurlp_fetch"

-----------------------------------------------------------------------------
(* C19 *)

\* C19: the step in which an attempt returns a failure is the step in which
\* its ledger entry, until then in a non-terminal state, becomes Failed with
\* paid false and the error set to the raised message; the caller is
\* answered success false with the same message.
C19_RaisedErrorFails ==
  [][\A r \in Requests :
       ( /\ req[r].pc \in InPerform /\ req'[r].pc = "done"
         /\ ~req'[r].result.success )
         => /\ req'[r].result.returned /\ req'[r].result.error # NoError
            /\ req[r].redeemId \in DOMAIN redemptions
            /\ redemptions[req[r].redeemId].status \notin {"paid", "failed"}
            /\ redemptions[req[r].redeemId].error = NoError
            /\ req[r].redeemId \in DOMAIN redemptions'
            /\ redemptions'[req[r].redeemId].status = "failed"
            /\ redemptions'[req[r].redeemId].paid = JsFalse
            /\ redemptions'[req[r].redeemId].error = req'[r].result.error
            /\ ~req'[r].response.success
            /\ req'[r].response.error = req'[r].result.error]_vars

\* C19 witness: the melt raised an error and the attempt ended Failed
C19_Witness ==
  \E r \in Requests :
    /\ req[r].pc = "done" /\ req[r].result.returned /\ ~req[r].result.success
    /\ "wallet.meltTokens" \in Ops(r)
    /\ HasEntry(r) /\ Entry(r).status = "failed"
    /\ Entry(r).error = req[r].result.error /\ Entry(r).error # NoError

-----------------------------------------------------------------------------
(* C20 *)

\* C20: every result returned for an attempt whose token was parsed, on
\* success and on failure alike, carries the success flag, the declared
\* amount, the destination and the mint endpoint; once the invoice amount
\* is known it carries that too, and on success the fees, the net amount
\* and the settlement proof when the melt gave one.
C20_ResultFields ==
  \A r \in Requests :
    ( /\ req[r].pc = "done" /\ req[r].result.returned
      /\ HasEntry(r) /\ Entry(r).amount # NoNum )
      => /\ req[r].response.status # NoNum
         /\ req[r].response.amount = Declared(req[r].token)
         /\ req[r].response.to # Undefined
         /\ req[r].response.mint_url # Undefined
         /\ Entry(r).invoiceAmount # NoNum =>
              req[r].response.invoiceAmount = Entry(r).invoiceAmount
         /\ req[r].response.success =>
              /\ req[r].response.fee # NoNum
              /\ req[r].response.actualFee # NoNum
              /\ req[r].response.netAmount # NoNum
              /\ Truthy(Entry(r).preimage) => req[r].response.preimage = Entry(r).preimage

-----------------------------------------------------------------------------
(* C21 *)

\* no address in the request, or a blank one
C21_Blank(address) == address \in {NoAddress, "", "  "}

\* the validation messages of request r
C21_Errors(r) == {req[r].errors[i] : i \in 1 .. Len(req[r].errors)}

\* the attempt of request r targets this address, as default or not
C21_Targets(r, address, asDefault) ==
  /\ "Invalid Lightning address format" \in C21_Errors(r) =>
       ~AddressParts(address).wellFormed
  /\ HasEntry(r) => /\ Entry(r).lightningAddress = address
                    /\ Entry(r).usingDefaultAddress = asDefault
  /\ req[r].lnurlpUrl # NoUrl =>
       req[r].lnurlpUrl = [domain |-> AddressParts(address).domain,
                           username |-> AddressParts(address).username]
  /\ req[r].result.success =>
       /\ req[r].result.to = address /\ req[r].response.to = address
       /\ req[r].result.usingDefaultAddress = asDefault
       /\ req[r].response.usingDefaultAddress = asDefault

\* C21: a request with no address or a blank one, under a configured
\* default, is not rejected for its address and its attempt targets the
\* default with usingDefaultAddress true; a request with an address targets
\* that address (surrounding blanks removed) with usingDefaultAddress
\* false; with no address and no default the request is answered 400 and
\* no attempt is started.
C21_DefaultAddress ==
  \A r \in Requests :
    req[r].pc # "idle" =>
      IF ~C21_Blank(req[r].lightningAddress)
        THEN C21_Targets(r, TrimAddress(req[r].lightningAddress), FALSE)
      ELSE IF Truthy(config.defaultLightningAddress)
        THEN /\ C21_Targets(r, config.defaultLightningAddress, TRUE)
             /\ "No Lightning address provided and no default Lightning address configured"
                  \notin C21_Errors(r)
      ELSE /\ req[r].redeemId = NoNum /\ req[r].calls = << >>
           /\ req[r].pc \in {"validated", "done"}
           /\ "No Lightning address provided and no default Lightning address configured"
                \in C21_Errors(r)
           /\ req[r].pc = "done" =>
                (req[r].response.status = 400 /\ ~req[r].response.success)
           /\ \A id \in DOMAIN redemptions : ~redemptions[id].usingDefaultAddress

\* C21 witness: a blank address was paid to the default address
C21_Witness ==
  \E r \in Requests :
    /\ req[r].lightningAddress = "  " /\ req[r].result.success
    /\ req[r].result.to = config.defaultLightningAddress
    /\ req[r].result.usingDefaultAddress
    /\ HasEntry(r) /\ Entry(r).usingDefaultAddress /\ Entry(r).status = "paid"

\* the request without an address was refused for want of a default
C21_WitnessRejected ==
  \E r \in Requests :
    /\ req[r].lightningAddress = NoAddress /\ ~Truthy(config.defaultLightningAddress)
    /\ req[r].pc = "done" /\ req[r].response.status = 400

-----------------------------------------------------------------------------
(* C22 *)

\* request r carries an address of its own, and a default is configured
C22_Provided(r) ==
  /\ req[r].pc # "idle" /\ ~C21_Blank(req[r].lightningAddress)
  /\ Truthy(config.defaultLightningAddress)

\* the resolution of the address of request r has failed: at the format
\* test of the validation, or inside resolveInvoice
C22_ResolutionFailed(r) ==
  /\ req[r].pc = "done"
  /\ \/ "Invalid Lightning address format" \in C21_Errors(r)
     \/ /\ req[r].result.returned /\ req[r].result.error # NoError
        /\ req[r].result.error.text[1] = "Lightning address resolution failed: "

\* the requests of r that went to an address provider
C22_ProviderCalls(r) ==
  {i \in 1 .. Len(req[r].calls) : req[r].calls[i].op \in {"lnurlp.fetch", "lnurlp.callback"}}

\* C22: a request with an address of its own only ever contacts the
\* provider of that address, and its ledger entry keeps that address; when
\* the resolution fails (format, allow-list, discovery, bounds, callback)
\* the request is answered as failed, the entry (a malformed address is
\* refused before one is made) is Failed for the provided address, at most
\* one discovery fetch and one callback were sent, and no melt was asked.
C22_NoFallback ==
  \A r \in Requests :
    C22_Provided(r) =>
      LET provided == TrimAddress(req[r].lightningAddress)
      IN /\ req[r].lnurlpUrl \in {NoUrl, [domain |-> AddressParts(provided).domain,
                                           username |-> AddressParts(provided).username]}
         /\ HasEntry(r) => /\ Entry(r).lightningAddress = provided
                           /\ ~Entry(r).usingDefaultAddress
         /\ C22_ResolutionFailed(r) =>
              /\ ~req[r].response.success /\ ~req[r].result.success
              /\ req[r].redeemId # NoNum =>
                   /\ HasEntry(r) /\ Entry(r).status = "failed"
                   /\ Entry(r).error = req[r].result.error
              /\ Cardinality(C22_ProviderCalls(r)) <= 2
              /\ Cardinality({i \in C22_ProviderCalls(r) :
                                req[r].calls[i].op = "lnurlp.fetch"}) <= 1
              /\ Ops(r) \cap {"wallet.createMeltQuote", "wallet.meltTokens"} = {}

\* C22 witness: an address off the allow-list failed although the default
\* address is on it
C22_Witness ==
  \E r \in Requests :
    /\ req[r].lightningAddress = "user@evil.com"
    /\ config.defaultLightningAddress = "admin@example.org"
    /\ "example.org" \in config.allowedDomains
    /\ C22_ResolutionFailed(r) /\ req[r].lnurlpUrl = NoUrl
    /\ HasEntry(r) /\ Entry(r).status = "failed"
    /\ Entry(r).lightningAddress = "user@evil.com"

-----------------------------------------------------------------------------
(* C23 *)

\* the cause of a failure: the innermost fragment of its message
C23_Cause(error) == error.text[Len(error.text)]

\* the class of a failure, by its cause
C23_Class(error) ==
  IF C23_Cause(error) \in
       {"This token has already been spent and cannot be redeemed again",
        "Token already spent"}
    THEN "spent"
  ELSE IF C23_Cause(error) \in
       {"Token amount is insufficient to cover the minimum fee",
        "Insufficient funds. Required / Available"}
    THEN "insufficient"
  ELSE "other"

\* C23: a failed redemption is answered 409 token_already_spent when the
\* token was already spent, 422 insufficient_funds when its value is
\* insufficient (found when sizing the invoice or against the melt quote),
\* and 400 validation_error otherwise.
C23_StatusCodes ==
  \A r \in Requests :
    (req[r].pc = "done" /\ req[r].result.returned /\ ~req[r].result.success) =>
      LET class == C23_Class(req[r].result.error)
      IN /\ req[r].response.status =
              (IF class = "spent" THEN 409 ELSE IF class = "insufficient" THEN 422 ELSE 400)
         /\ req[r].response.errorType =
              (IF class = "spent" THEN "token_already_spent"
               ELSE IF class = "insufficient" THEN "insufficient_funds"
               ELSE "validation_error")

-----------------------------------------------------------------------------
(* C24 *)

\* C24: under an explicit allow-list a domain passes the gate exactly when
\* it equals one of the configured entries once both are put in lower
\* case, whatever the case of the entry and of the domain.
C24_CaseInsensitiveGate ==
  (probe.op = "isDomainAllowed" /\ probe.res # "pending") =>
    ( probe.res = JsTrue <=>
        \E entry \in config.allowedDomains :
          toLowerCase(entry) = toLowerCase(probe.arg[1]) )

-----------------------------------------------------------------------------
(* C25 *)

\* the place of an external call in the order of an attempt (0: the
\* connectivity check of the mint cache, which is not one of the five)
C25_Rank(op) ==
  CASE op = "mint.check" -> 1
    [] op = "lnurlp.fetch" -> 2
    [] op = "lnurlp.callback" -> 3
    [] op = "wallet.createMeltQuote" -> 4
    [] op = "wallet.meltTokens" -> 5
    [] OTHER -> 0

\* the request positions at which the answer to a call is awaited
C25_Await(op) ==
  CASE op = "mint.getInfo" -> {"spend_getinfo", "melt_getinfo"}
    [] op = "mint.check" -> {"spend_check"}
    [] op = "lnurlp.fetch" -> {"lnurlp_fetch"}
    [] op = "lnurlp.callback" -> {"invoice_fetch"}
    [] op = "wallet.createMeltQuote" -> {"melt_quote"}
    [] op = "wallet.meltTokens" -> {"melting"}
    [] OTHER -> {}

C25_Awaits ==
  {"spend_getinfo", "melt_getinfo", "spend_check", "lnurlp_fetch", "invoice_fetch",
   "melt_quote", "melting"}

\* the calls of an attempt are in order, each of the five made at most
\* once, and the callback, the quote and the melt each come after the
\* call before them in the order
C25_InOrder(calls) ==
  /\ \A i, j \in 1 .. Len(calls) :
       (i < j /\ C25_Rank(calls[i].op) > 0 /\ C25_Rank(calls[j].op) > 0)
         => C25_Rank(calls[i].op) < C25_Rank(calls[j].op)
  /\ \A j \in 1 .. Len(calls) :
       C25_Rank(calls[j].op) >= 3 =>
         \E i \in 1 .. j - 1 : C25_Rank(calls[i].op) = C25_Rank(calls[j].op) - 1

-----------------------------------------------------------------------------
(* C26 *)

\* the request positions at which the discovery fetch, the invoice
\* callback, the melt quote or the melt submission is awaited
C26_Awaited == {"lnurlp_fetch", "invoice_fetch", "melt_quote", "melting"}

\* how many times request r has sent this operation
C26_Sent(calls, op) == Cardinality({i \in 1 .. Len(calls) : calls[i].op = op})

\* C26: the step that takes the answer to the discovery fetch, the invoice
\* callback, the melt quote or the melt submission either ends the attempt
\* (sending nothing more, the entry Failed, or Paid after the melt) or goes
\* on to the next operation; none of the four is sent a second time, and an
\* ended attempt sends nothing.
C26_NoRetry ==
  [][\A r \in Requests :
       /\ req[r].pc \in C26_Awaited /\ req'[r] # req[r] =>
            /\ req'[r].pc # req[r].pc
            /\ \/ /\ req'[r].pc = "done" /\ req'[r].calls = req[r].calls
                  /\ req'[r].result.returned
                  /\ redemptions'[req[r].redeemId].status \in
                       (IF req[r].pc = "melting" THEN {"paid", "failed"} ELSE {"failed"})
               \/ /\ req'[r].pc \in InPerform
                  /\ redemptions'[req[r].redeemId].status \notin {"paid", "failed"}
                  /\ redemptions'[req[r].redeemId].error = NoError
       /\ \A op \in {"lnurlp.fetch", "lnurlp.callback", "wallet.createMeltQuote",
                      "wallet.meltTokens"} : C26_Sent(req'[r].calls, op) <= 1
       /\ req[r].pc = "done" => req'[r].calls \in {req[r].calls, << >>}]_vars

\* C26 witness: the melt submission failed, and it was sent once
C26_Witness ==
  \E r \in Requests :
    /\ req[r].pc = "done" /\ ~req[r].result.success
    /\ req[r].calls # << >>
    /\ req[r].calls[Len(req[r].calls)].op = "wallet.meltTokens"
    /\ C26_Sent(req[r].calls, "wallet.meltTokens") = 1
    /\ HasEntry(r) /\ Entry(r).status = "failed"
    /\ Entry(r).rawMeltResponse = NoMeltResponse

-----------------------------------------------------------------------------
(* C27 *)

\* the attempt with this id is in the ledger, in this state
C27_In(id, states) == id \in DOMAIN redemptions /\ redemptions[id].status \in states

\* C27: when every await is resumed, an attempt that is in the ledger
\* comes to be Paid or Failed, and so does in particular an attempt that
\* has begun MeltingToken.
C27_Terminates ==
  \A id \in 1 .. MaxSeqAttempts :
    /\ (id \in DOMAIN redemptions) ~> C27_In(id, {"paid", "failed"})
    /\ C27_In(id, {"melting_token"}) ~> C27_In(id, {"paid", "failed"})

\* C27 witness: an attempt that had begun MeltingToken and submitted the
\* melt has ended
C27_Witness ==
  \E r \in Requests :
    /\ req[r].pc = "done" /\ req[r].result.returned
    /\ "wallet.meltTokens" \in Ops(r)
    /\ C27_In(req[r].redeemId, {"paid", "failed"})

-----------------------------------------------------------------------------
(* C28 *)

\* the mint endpoint of the token of request r
C28_Endpoint(r) == parseToken(req[r].token).mint

\* the requests whose getMint / getWallet call is awaiting the connectivity
\* check of this endpoint
C28_Checking(url) ==
  {r \in Requests : req[r].pc \in {"spend_getinfo", "melt_getinfo"} /\ C28_Endpoint(r) = url}

\* C28: in every step, for every request whose getMint or getWallet call
\* takes the answer of its connectivity check, whatever the other requests
\* are doing: after a successful check the call returns the handle of its
\* endpoint and the endpoint is cached; after a failed check the caches are
\* as they were; a check is sent only for an endpoint that is not cached
\* at that moment; the caches only grow, hold nothing but endpoints of
\* tokens, and the step changes nothing of any other request.
C28_CachePopulation ==
  [][/\ \A r \in Requests :
          /\ (req[r].pc = "spend_getinfo" /\ req'[r].pc # req[r].pc) =>
               IF req'[r].pc = "spend_check"
                 THEN /\ req'[r].handle = [kind |-> "mint", url |-> C28_Endpoint(r)]
                      /\ mints' = mints \cup {C28_Endpoint(r)}
                      /\ wallets' = wallets
                 ELSE mints' = mints /\ wallets' = wallets
          /\ (req[r].pc = "melt_getinfo" /\ req'[r].pc # req[r].pc) =>
               IF req'[r].pc = "melt_quote"
                 THEN /\ req'[r].handle = [kind |-> "wallet", url |-> C28_Endpoint(r)]
                      /\ mints' = mints \cup {C28_Endpoint(r)}
                      /\ wallets' = wallets \cup {C28_Endpoint(r)}
                 ELSE mints' = mints /\ wallets' = wallets
          /\ (req[r].pc \in {"spend_getinfo", "melt_getinfo"} /\ req'[r].pc # req[r].pc) =>
               \A other \in Requests \ {r} : req'[other] = req[other]
          /\ (req'[r].pc \in {"spend_getinfo", "melt_getinfo"} /\ req[r].pc # req'[r].pc) =>
               C28_Endpoint(r) \notin mints
          /\ req'[r].handle # NoHandle =>
               /\ req'[r].handle.url = C28_Endpoint(r)
               /\ req'[r].handle.url \in (IF req'[r].handle.kind = "mint" THEN mints' ELSE wallets')
     /\ mints \subseteq mints' /\ wallets \subseteq wallets'
     /\ mints' \subseteq {MintUrl} /\ wallets' \subseteq mints']_vars

\* C28 witness: two calls checked the same endpoint at the same time; one
\* has cached the endpoint and returned its handle while the check of the
\* other, now redundant, is still awaited
C28_Witness ==
  \E r1, r2 \in Requests :
    /\ r1 # r2 /\ mints = {MintUrl}
    /\ req[r1].handle = [kind |-> "mint", url |-> MintUrl]
    /\ req[r1].calls[1].op = "mint.getInfo"
    /\ req[r2].pc = "spend_getinfo" /\ C28_Checking(MintUrl) = {r2}

-----------------------------------------------------------------------------
(* C29 *)

\* the fields the updates of one step supply, by the state the step leaves
\* the attempt in
C29_Supplied(status) ==
  CASE status = "checking_spendability"
         -> {"status", "amount", "mint", "expectedFee", "netAmountAfterFee"}
    [] status = "melting_token" -> {"status", "domain", "invoiceAmount"}
    [] status = "paid"
         -> {"status", "paid", "preimage", "fee", "actualFee", "netAmount", "paidAt",
             "rawMeltResponse"}
    [] status = "failed"
         -> {"status", "paid", "error", "preimage", "fee", "actualFee", "netAmount",
             "paidAt", "rawMeltResponse"}
    [] OTHER -> {"status"}

\* C29: in every step, an entry that stays in the ledger keeps its token
\* fingerprint and its createdAt (and its id, the key it is stored under);
\* when it changes, only fields that the updates of the step supply change,
\* and updatedAt is the time of the step; a new entry is created with both
\* times at the time of the step.
C29_UpdatesMerge ==
  [][\A id \in DOMAIN redemptions' :
       LET after == redemptions'[id]
       IN IF id \in DOMAIN redemptions
            THEN LET before == redemptions[id]
                 IN /\ DOMAIN after = DOMAIN before
                    /\ after.tokenHash = before.tokenHash
                    /\ after.createdAt = before.createdAt
                    /\ after.token = before.token
                    /\ after # before =>
                         /\ after.updatedAt = now
                         /\ \A f \in DOMAIN before \ (C29_Supplied(after.status) \cup {"updatedAt"}) :
                              after[f] = before[f]
            ELSE /\ after.createdAt = now
                 /\ after.updatedAt = now
                 /\ \E r \in Requests :
                      /\ req'[r].redeemId = id
                      /\ after.tokenHash = generateTokenHash(req'[r].token)]_vars

\* C29 witness: an attempt created at time 0 was last updated, to Paid, at
\* time 2, with the fingerprint of its token
C29_Witness ==
  \E r \in Requests :
    /\ HasEntry(r) /\ Entry(r).status = "paid"
    /\ Entry(r).createdAt = 0 /\ Entry(r).updatedAt = 2
    /\ Entry(r).tokenHash = generateTokenHash(req[r].token)
    /\ Entry(r).expectedFee # NoNum /\ Entry(r).invoiceAmount # NoNum

-----------------------------------------------------------------------------
(* C30 *)

\* C30: the expected fee recorded in the ledger entry is, from ParsingToken
\* on, the protocol minimum fee of the declared amount; in a Paid entry
\* whose melt response states the fee the mint charged, and in the result
\* returned for it, one fee field holds the expected fee and another holds
\* the fee charged.
C30_BothFees ==
  \A r \in Requests :
    HasEntry(r) =>
      LET expected == ProtocolMinFee(Declared(req[r].token))
          charged == C11_Charged(Entry(r).rawMeltResponse)
      IN /\ Entry(r).expectedFee \in {NoNum, expected}
         /\ Entry(r).status \notin {"processing", "parsing_token", "failed"} =>
              Entry(r).expectedFee = expected
         /\ ( /\ req[r].pc = "done" /\ req[r].result.success
              /\ Entry(r).status = "paid" /\ charged # NoNum ) =>
              /\ Entry(r).expectedFee = expected
              /\ charged \in {Entry(r).fee, Entry(r).actualFee}
              /\ \/ req[r].result.actualFee = expected /\ req[r].result.fee = charged
                 \/ req[r].result.fee = expected /\ req[r].result.actualFee = charged
              /\ \/ req[r].response.actualFee = expected /\ req[r].response.fee = charged
                 \/ req[r].response.fee = expected /\ req[r].response.actualFee = charged

-----------------------------------------------------------------------------
(* C31 *)

\* the entries created more than maxAge ago
C31_Old(maxAge) == {id \in DOMAIN redemptions : now - redemptions[id].createdAt > maxAge}

\* C31: a step of the redemption flow removes no ledger entry and no index
\* entry; a sweep removes exactly the entries created more than maxAge ago
\* and the index entries of their fingerprints, and leaves every younger
\* entry, and the index entry of its fingerprint, as they were.
C31_SweepExact ==
  [][IF Cleanup
       THEN /\ DOMAIN redemptions' = DOMAIN redemptions \ C31_Old(DefaultMaxAgeMs)
            /\ \A id \in C31_Old(DefaultMaxAgeMs) :
                 redemptions[id].tokenHash \notin DOMAIN tokenHashes'
            /\ \A id \in DOMAIN redemptions \ C31_Old(DefaultMaxAgeMs) :
                 /\ redemptions'[id] = redemptions[id]
                 /\ redemptions[id].tokenHash \in DOMAIN tokenHashes
                      => /\ redemptions[id].tokenHash \in DOMAIN tokenHashes'
                         /\ tokenHashes'[redemptions[id].tokenHash]
                              = tokenHashes[redemptions[id].tokenHash]
       ELSE /\ DOMAIN redemptions \subseteq DOMAIN redemptions'
            /\ DOMAIN tokenHashes \subseteq DOMAIN tokenHashes']_vars

-----------------------------------------------------------------------------
(* C32 *)

\* the proofs the token of request r decodes to
C32_Proofs(r) == getDecodedToken(Trim(req[r].token)).proofs

\* the request was refused because parseToken threw
C32_ParseFailed(errors) ==
  /\ Len(errors) = 3
  /\ errors[1] = "Invalid token: " /\ errors[2] = "Token parsing failed: "

\* C32: when parseToken returns to the validation, it has failed if the
\* proof list is empty or the proof values add up to 0 or less; when it
\* returns to performRedemption with a result, the total recorded is the
\* sum of the proof values and is positive; in both steps no request is
\* sent to the mint and no mint or wallet is constructed.
C32_ParseToken ==
  [][\A r \in Requests :
       /\ (req[r].pc = "validating" /\ req'[r].pc # "validating")
            => /\ (C32_Proofs(r) = << >> \/ SumSeq(C32_Proofs(r)) <= 0)
                    => C32_ParseFailed(req'[r].errors)
               /\ ~C32_ParseFailed(req'[r].errors)
                    => /\ req'[r].errors = << >>
                       /\ SumSeq(C32_Proofs(r)) > 0
               /\ req'[r].calls = req[r].calls
               /\ mints' = mints /\ wallets' = wallets
       /\ (req[r].pc = "parsing_token" /\ req'[r].pc # "parsing_token")
            => /\ req'[r].pc # "done"
                    => /\ redemptions'[req[r].redeemId].amount = SumSeq(C32_Proofs(r))
                       /\ redemptions'[req[r].redeemId].amount > 0
               /\ req'[r].calls = req[r].calls
               /\ mints' = mints /\ wallets' = wallets]_vars

\* the validation has refused a token whose only proof is worth nothing
C32_Witness ==
  /\ req[1].pc = "validated" /\ req[1].token = "cashuAzero"
  /\ req[1].errors = <<"Invalid token: ", "Token parsing failed: ", "Token has no value">>

-----------------------------------------------------------------------------
(* C33 *)

\* the mint's check says that no proof is spendable, or signals the token
\* as spent (HTTP 422 with no detail or with a detail that says so)
C33_SaysSpent(check) ==
  \/ check.kind = "result" /\ \A i \in 1 .. Len(check.spendable) : ~check.spendable[i]
  \/ /\ check.kind = "HttpResponseError" /\ check.status = 422
     /\ check.detail \in {Undefined, "Token already spent"}

\* the check is unsupported by the mint, ambiguous, or failed for a network
\* or server reason
C33_Inconclusive(check) ==
  \/ check.kind = "HttpResponseError" /\ check.status \in {404, 405, 501, 500}
  \/ /\ check.kind = "HttpResponseError" /\ check.status = 422
     /\ check.detail = "Proofs are pending"
  \/ check.kind = "Error"

\* C33: a decode answered after the spendability check reports spent=true
\* when the mint's check said that no proof is spendable or signalled the
\* token as spent, and spent=false when the check was unsupported,
\* ambiguous, or failed for a network or server reason.
C33_SpentFlag ==
  \A r \in Requests :
    (req[r].pc = "done" /\ req[r].response.spent # Undefined)
      => /\ C33_SaysSpent(req[r].checkResult) => req[r].response.spent = JsTrue
         /\ C33_Inconclusive(req[r].checkResult) => req[r].response.spent = JsFalse

-----------------------------------------------------------------------------
(* C34 *)

\* C34: in every ledger state, the paid flag of an entry is true exactly
\* when its state is Paid, and its paidAt is set exactly when its state is
\* Paid.
C34_PaidFlag ==
  \A id \in DOMAIN redemptions :
    /\ redemptions[id].paid = JsTrue <=> redemptions[id].status = "paid"
    /\ redemptions[id].paidAt # NoNum <=> redemptions[id].status = "paid"

-----------------------------------------------------------------------------
(* C35 *)

\* C35: in every state, each index entry maps its fingerprint to the id of
\* a stored entry that holds this fingerprint, and the fingerprint of each
\* stored entry is a key of the index.
C35_IndexConsistent ==
  /\ \A h \in DOMAIN tokenHashes :
       /\ tokenHashes[h] \in DOMAIN redemptions
       /\ redemptions[tokenHashes[h]].tokenHash = h
  /\ \A id \in DOMAIN redemptions : redemptions[id].tokenHash \in DOMAIN tokenHashes

-----------------------------------------------------------------------------
(* C36 *)

\* request r is in validateRedemptionRequest, or back in the handler with
\* the errors the validation found
C36_InValidation(r) ==
  \/ req[r].pc \in {"idle", "validating"}
  \/ req[r].pc = "validated" /\ req[r].errors # << >>

\* C36: a step of the validation of a request, and the step in which the
\* handler refuses a request the validation rejected, leave the ledger and
\* the fingerprint index as they were; the refusal is answered 400.
C36_RejectedLeavesLedger ==
  [][\A r \in Requests :
       (req'[r] # req[r] /\ C36_InValidation(r))
         => /\ redemptions' = redemptions
            /\ tokenHashes' = tokenHashes
            /\ (req[r].pc = "validated" /\ req'[r].pc = "done")
                 => /\ req'[r].response.status = 400
                    /\ req'[r].redeemId = NoNum]_vars

\* a request was refused as a duplicate of a stored attempt
C36_Witness ==
  /\ req[1].pc = "done" /\ req[1].response.status = 400
  /\ req[1].errors = <<"Token has already been redeemed">>
  /\ req[1].redeemId = NoNum
  /\ DOMAIN redemptions = {1} /\ DOMAIN tokenHashes = {generateTokenHash(req[1].token)}

-----------------------------------------------------------------------------
(* C37 *)

\* C37: a redeemId is handed to an attempt together with its ledger entry;
\* an entry leaves the ledger in a sweep only; so when performRedemption
\* returns a result, success or failure, the result carries the redeemId
\* of the attempt and the ledger holds the entry of this redeemId, unless
\* a sweep has removed it.
C37_ResultHasEntry ==
  [][/\ \A r \in Requests :
          (req'[r].redeemId # req[r].redeemId /\ req'[r].redeemId # NoNum)
            => /\ req'[r].redeemId \notin DOMAIN redemptions
               /\ req'[r].redeemId \in DOMAIN redemptions'
     /\ \A id \in DOMAIN redemptions : id \notin DOMAIN redemptions' => Cleanup
     /\ \A r \in Requests :
          (req'[r].result.returned /\ ~req[r].result.returned)
            => /\ req'[r].result.redeemId = req'[r].redeemId
               /\ req'[r].result.redeemId # NoNum
               /\ \/ req'[r].result.redeemId \in DOMAIN redemptions'
                  \/ /\ req[r].redeemId = req'[r].result.redeemId
                     /\ req[r].redeemId \notin DOMAIN redemptions]_vars

\* performRedemption has returned a failure and the ledger holds the entry
\* of its redeemId, failed
C37_Witness ==
  \E r \in Requests :
    /\ req[r].result.returned /\ ~req[r].result.success
    /\ getRedemption(req[r].result.redeemId) = req[r].result.redeemId
    /\ redemptions[req[r].result.redeemId].status = "failed"

-----------------------------------------------------------------------------
(* C38 *)

\* C38: a request whose token differs only by leading or trailing
\* whitespace from the token of a stored attempt (it parses to the same
\* token) is refused as already redeemed.
C38_SameDecodedToken ==
  [][\A r \in Requests :
       ( /\ req[r].pc = "idle" /\ req'[r].pc # "idle" /\ Truthy(req'[r].token)
         /\ \E id \in DOMAIN redemptions :
              /\ redemptions[id].token # req'[r].token
              /\ Trim(redemptions[id].token) = Trim(req'[r].token) )
         => \E i \in 1 .. Len(req'[r].errors) :
              req'[r].errors[i] = "Token has already been redeemed"]_vars

-----------------------------------------------------------------------------
(* C39 *)

\* the amounts, in millisats, request r has asked the callback of the payee
\* to invoice
C39_Requested(r) ==
  {req[r].calls[i].arg : i \in {j \in 1 .. Len(req[r].calls) :
                                  req[r].calls[j].op = "lnurlp.callback"}}

\* C39: once an attempt has submitted the melt, the invoice it sent to the
\* mint is for the amount it requested from the payee, and the
\* invoiceAmount of its ledger entry is the amount of this invoice.
C39_InvoiceAmountPaid ==
  \A r \in Requests :
    "wallet.meltTokens" \in Ops(r)
      => /\ req[r].bolt11.amountMsats \in C39_Requested(r)
         /\ HasEntry(r)
              => satsToMillisats(Entry(r).invoiceAmount) = req[r].bolt11.amountMsats

====
